---- MODULE Spec2Model ----
\* PgQ consumer framework (python-pgq): the batch lifecycle of BaseConsumer /
\* Consumer / CoopConsumer and the replication state machine of
\* CascadedConsumer, as state machines over the queue engine's subscription
\* row (source database) and the node registry (target database).
EXTENDS Integers, Sequences, FiniteSets, TLC

\* ---------------------------------------------------------------- bounds
\* ticks the ticker creates on the source queue (tick ids 1..MaxTick)
MaxTick == 3
\* batch ids the engine's batch sequence hands out
MaxBatch == 4
\* administrative rewind / reset commands issued
MaxAdminOps == 1
\* tick ids is_batch_done is evaluated on (1..MaxFnTick)
MaxFnTick == 4

\* Python None / SQL NULL for tick ids and batch ids (never a valid id)
NULL == -1

\* Event status codes
EV_UNTAGGED == -1
EV_RETRY == 0
EV_DONE == 1

VARIABLES
    \* source (provider) database
    top_tick,          \* newest tick of the queue
    batch_seq,         \* pgq batch id sequence (never rolled back)
    src,               \* committed subscription row of the consumer
    src_tx,            \* the row as the consumer's open transaction sees it
    \* target database
    dst,               \* committed pgq_node consumer state row
    applied,           \* ticks whose replicated writes are committed
    dst_pending,       \* replicated writes in the open target transaction
    \* the consumer process
    conf,              \* class and configuration of the script
    pc,                \* position inside work()
    state,             \* self._consumer_state
    batch_id,          \* local batch_id of work()
    batch_info,        \* self.batch_info
    provider_connstr,  \* self.provider_connstr
    work_state,        \* DBScript.work_state
    ev_list,           \* event list / batch walker of the current cycle
    \* the administrator process (rewind / reset)
    adm,
    \* observation of the current and past cycles
    cyc,               \* what the current work() call has done so far
    held,              \* batch id the process acquired and has not closed
    acked,             \* cur ticks of batches acknowledged on the source
    done_hist,         \* ticks ever recorded as completed_tick
    \* inputs and result of one is_batch_done evaluation
    fn,
    \* a batch walker driven on its own: the batch behind the cursor and what
    \* the code using the walker has seen of it
    bw,
    \* the script's start: configuration file, command line, and what
    \* __init__ / startup have done
    reg,
    \* the location the cached provider connection was opened with
    provider_db,
    \* the queue's event table as the producer's connection sees it
    evq

vars == <<top_tick, batch_seq, src, src_tx, dst, applied, dst_pending, conf, pc,
          state, batch_id, batch_info, provider_connstr, work_state, ev_list, adm, cyc,
          held, acked, done_hist, fn, bw, reg, provider_db, evq>>

procVars == <<conf, pc, state, batch_id, batch_info, provider_connstr, work_state,
              ev_list>>
obsVars == <<cyc, held, acked, done_hist>>
srcVars == <<top_tick, batch_seq, src, src_tx>>
dstVars == <<dst, applied, dst_pending>>
auxVars == <<reg, provider_db, evq>>
fnVars == <<fn, bw, auxVars>>

\* ------------------------------------------------------------ constants
NodeTypes == {"root", "branch", "leaf"}
NoLocation == "None"
Locations == {NoLocation, "db1"}

NoState ==
    [completed_tick |-> NULL, paused |-> FALSE, uptodate |-> TRUE,
     cur_error |-> FALSE, node_type |-> "none", provider_location |-> NoLocation]

NoBatch == [batch_id |-> NULL, prev_tick_id |-> NULL, tick_id |-> NULL]

NoEvents ==
    [mode |-> "none", fetch_size |-> 0, fetch_status |-> 0, length |-> 0,
     ids |-> <<>>, page |-> <<>>, row |-> 0, fetched |-> 0, yielded |-> {},
     status |-> <<>>, status_map |-> <<>>, todo |-> {}, fpos |-> 0,
     out |-> <<>>, opens |-> 0, fetches |-> 0, closes |-> 0, last_tag |-> <<>>,
     written |-> {}]

NoCycle ==
    [acquires |-> 0, callbacks |-> 0, completed |-> 0, finished |-> 0,
     retries |-> 0, unpaused |-> FALSE, waited |-> FALSE, skipped |-> FALSE, lost |-> FALSE,
     cb_raised |-> FALSE, flush_raised |-> FALSE, calls |-> {},
     next_q |-> [q |-> "", timeout |-> ""], fin_q |-> "",
     tagged |-> "none", cleared |-> "none", closed |-> {}, acq_from |-> NoLocation,
     no_provider |-> FALSE]

NoAdmin == [pc |-> "idle", tick |-> NULL, ops |-> 0]

NoFn == [prev |-> NULL, cur |-> NULL, dst |-> NULL, out |-> "none"]

\* self.consumer_filter = None
NoFilter == "None"

NoWalkerRun ==
    [events |-> <<>>, loops |-> 0, errors |-> 0, lens |-> {}, stat |-> {}]

\* a node name the provider has not got (node_name is NULL)
NoNode == "None"

\* no configuration read, no command line option given, nothing done
NoReg ==
    [cfg |-> [pgq_lazy_fetch |-> NULL, pgq_autocommit |-> NULL],
     options |-> [register |-> FALSE, unregister |-> FALSE, provider |-> NoLocation],
     provider_node |-> NoNode, pnode |-> NoNode, last_tick |-> NULL, log |-> <<>>]

\* an empty event table; nothing inserted by this connection
NoQueue == [table |-> <<>>, ev_seq |-> 0, calls |-> 0, last |-> <<>>]

\* ------------------------------------------------- CascadedConsumer helpers

\* mutant: a batch whose cur_tick is already completed is taken as new
is_batch_done_reapply(prev_tick, cur_tick, dst_tick) ==
    IF dst_tick = NULL \/ dst_tick = 0 THEN "raise_null"
    ELSE IF prev_tick = dst_tick \/ cur_tick = dst_tick THEN "False"
    ELSE "raise_lost"

\* mutant: any completed tick inside the batch's window is accepted as applied
is_batch_done_window(prev_tick, cur_tick, dst_tick) ==
    IF dst_tick = NULL \/ dst_tick = 0 THEN "raise_null"
    ELSE IF prev_tick = dst_tick THEN "False"
    ELSE IF prev_tick < dst_tick /\ dst_tick <= cur_tick THEN "True"
    ELSE "raise_lost"

\* mutant: a lost position is taken as a new batch
is_batch_done_guess(prev_tick, cur_tick, dst_tick) ==
    IF dst_tick = NULL \/ dst_tick = 0 THEN "raise_null"
    ELSE IF cur_tick = dst_tick THEN "True"
    ELSE "False"

\* is_batch_done(state, batch_info, dst_db): False = new batch, True = skip,
\* or one of the two exceptions.
is_batch_done(prev_tick, cur_tick, dst_tick) ==
    IF dst_tick = NULL \/ dst_tick = 0 THEN "raise_null"
    ELSE IF prev_tick = dst_tick THEN "False"
    ELSE IF cur_tick = dst_tick THEN "True"
    ELSE "raise_lost"

\* ------------------------------------------------------- the queue engine
\* Subscription row of the consumer: last_tick is the position, batch /
\* next_tick the active (unfinished) batch, retry the retry queue.  For a
\* subconsumer: sibling is the batch a sibling subconsumer holds unfinished,
\* main the position of the shared consumer while this row holds a batch
\* taken over from the sibling.
SubRow(last_tick) ==
    [last_tick |-> last_tick, batch |-> NULL, next_tick |-> NULL, retry |-> {},
     sibling |-> NoBatch, main |-> NULL]

\* pgq.next_batch_custom: answers of the engine for a subscription row.
\* An unfinished batch is returned again; otherwise a new batch up to some
\* later tick, or no batch (nothing ready, or held back by the gating
\* parameters min_lag / min_count / min_interval).  Without a subscription
\* the call has no answer: it fails.
next_batch_answers(row) ==
    IF row.last_tick = NULL THEN {}
    ELSE IF row.batch # NULL
    THEN {[batch_id |-> row.batch, prev_tick_id |-> row.last_tick,
           tick_id |-> row.next_tick]}
    ELSE {NoBatch} \cup
         {[batch_id |-> batch_seq + 1, prev_tick_id |-> row.last_tick, tick_id |-> t] :
             t \in {u \in (row.last_tick + 1) .. top_tick : batch_seq < MaxBatch}}

\* pgq_coop.next_batch with a timeout: the unfinished batch of a sibling
\* that has been silent for longer may be handed to this subconsumer; the
\* call without a timeout never does that
takeover_answers(row, query) ==
    IF query.timeout # "" /\ row.last_tick # NULL /\ row.batch = NULL
    THEN {row.sibling} \ {NoBatch}
    ELSE {}

\* the row after the engine assigned / returned batch `inf`
row_after_next_batch(row, inf) ==
    IF inf.batch_id = NULL THEN row
    ELSE IF inf = row.sibling
    THEN [row EXCEPT !.batch = inf.batch_id, !.last_tick = inf.prev_tick_id,
                     !.next_tick = inf.tick_id, !.main = row.last_tick,
                     !.sibling = NoBatch]
    ELSE [row EXCEPT !.batch = inf.batch_id, !.next_tick = inf.tick_id]

\* pgq.finish_batch(batch_id) / pgq_coop.finish_batch(batch_id): closes the
\* batch if it is the active one; the shared position is not moved by a
\* batch that was taken over
row_after_finish_batch(row, id) ==
    IF row.batch # NULL /\ row.batch = id
    THEN [row EXCEPT !.last_tick = IF row.main # NULL THEN row.main
                                   ELSE row.next_tick,
                     !.batch = NULL, !.next_tick = NULL, !.main = NULL]
    ELSE row

\* pgq.register_consumer_at(queue, consumer, tick)
row_after_register_at(row, tick) ==
    [row EXCEPT !.last_tick = tick, !.batch = NULL, !.next_tick = NULL]

\* db.commit() on the source connection; in autocommit mode every statement
\* has committed by itself
Autocommit == conf.pgq_autocommit # 0

\* the ticker of the source queue creates the next tick
Tick ==
    /\ top_tick < MaxTick
    /\ top_tick' = top_tick + 1
    /\ UNCHANGED <<batch_seq, src, src_tx, dstVars, procVars, adm, obsVars, fnVars>>

\* ------------------------------------------------------ BaseConsumer.work

\* mutant: the subconsumer never passes its timeout
next_batch_query_plain ==
    IF conf.klass = "CoopConsumer"
    THEN [q |-> "pgq_coop.next_batch", timeout |-> ""]
    ELSE [q |-> "pgq.next_batch_custom", timeout |-> ""]

\* the statement _load_next_batch executes: BaseConsumer calls
\* pgq.next_batch_custom; CoopConsumer calls pgq_coop.next_batch, with
\* subconsumer_timeout as last argument if it is set
next_batch_query ==
    IF conf.klass = "CoopConsumer"
    THEN [q |-> "pgq_coop.next_batch", timeout |-> conf.subconsumer_timeout]
    ELSE [q |-> "pgq.next_batch_custom", timeout |-> ""]

\* the statement _finish_batch executes
finish_batch_query ==
    IF conf.klass = "CoopConsumer" THEN "pgq_coop.finish_batch"
    ELSE "pgq.finish_batch"

\* work(): "acquire batch" -- self._load_next_batch(curs)
load_next_batch ==
    /\ pc = "next_batch"
    /\ \E inf \in next_batch_answers(src_tx)
                    \cup takeover_answers(src_tx, next_batch_query) :
        /\ src_tx' = row_after_next_batch(src_tx, inf)
        /\ src' = IF Autocommit THEN src_tx' ELSE src
        /\ batch_seq' = IF inf.batch_id # NULL /\ src_tx.batch = NULL
                           /\ inf # src_tx.sibling
                        THEN batch_seq + 1 ELSE batch_seq
        /\ batch_id' = inf.batch_id
        /\ batch_info' = IF conf.klass = "CoopConsumer" THEN batch_info ELSE inf
        /\ held' = IF inf.batch_id # NULL THEN inf.batch_id ELSE held
    /\ cyc' = [cyc EXCEPT !.acquires = @ + 1, !.next_q = next_batch_query,
                          !.acq_from = provider_db]
    /\ pc' = "acq_commit"
    /\ UNCHANGED <<top_tick, dstVars, conf, state, provider_connstr, work_state,
                   ev_list, adm, acked, done_hist, fnVars>>

\* mutant: the acquire is not committed before the events are loaded
acquire_commit_missing ==
    /\ pc = "acq_commit"
    /\ IF batch_id = NULL
       THEN /\ pc' = "idle"
            /\ work_state' = 0
            /\ batch_id' = NULL
            /\ cyc' = NoCycle
       ELSE /\ pc' = "load_events"
            /\ UNCHANGED <<work_state, batch_id, cyc>>
    /\ UNCHANGED <<top_tick, batch_seq, src, src_tx, dstVars, conf, state, batch_info,
                   provider_connstr, ev_list, adm, held, acked, done_hist, fnVars>>

\* mutant: work() returns after the acquire whether or not it got a batch
acquire_commit_return ==
    /\ pc = "acq_commit"
    /\ src' = src_tx
    /\ pc' = "idle"
    /\ work_state' = 0
    /\ cyc' = NoCycle
    /\ UNCHANGED <<top_tick, batch_seq, src_tx, dstVars, conf, state, batch_id,
                   batch_info, provider_connstr, ev_list, adm, held, acked,
                   done_hist, fnVars>>

\* mutant: work() goes on to load the events whether or not it got a batch
acquire_commit_goes_on ==
    /\ pc = "acq_commit"
    /\ src' = src_tx
    /\ pc' = "load_events"
    /\ UNCHANGED <<top_tick, batch_seq, src_tx, dstVars, conf, state, batch_id,
                   batch_info, provider_connstr, work_state, ev_list, adm, cyc,
                   held, acked, done_hist, fnVars>>

\* work(): db.commit(); if batch_id is None: return 0
acquire_commit ==
    /\ pc = "acq_commit"
    /\ src' = src_tx
    /\ IF batch_id = NULL
       THEN /\ pc' = "idle"
            /\ work_state' = 0
            /\ batch_id' = NULL
            /\ cyc' = NoCycle
       ELSE /\ pc' = "load_events"
            /\ UNCHANGED <<work_state, batch_id, cyc>>
    /\ UNCHANGED <<top_tick, batch_seq, src_tx, dstVars, conf, state, batch_info,
                   provider_connstr, ev_list, adm, held, acked, done_hist, fnVars>>

\* ------------------------------------------------------------ event lists
\* one event per tick, its id the tick's: the rows of batch (prev, cur]
batch_rows(prev_tick, cur_tick) ==
    [i \in 1 .. (cur_tick - prev_tick) |-> prev_tick + i]

\* pgq.get_batch_events / pgq.get_batch_cursor: the rows of the active batch
engine_batch_rows(row) == batch_rows(row.last_tick, row.next_tick)

\* BaseBatchWalker.__init__ (RetriableBatchWalker.__init__ adds status_map)
new_walker ==
    [mode |-> "walker", fetch_size |-> conf.pgq_lazy_fetch, fetch_status |-> 0,
     length |-> 0, ids |-> <<>>, page |-> <<>>, row |-> 0, fetched |-> 0,
     yielded |-> {}, status |-> <<>>, status_map |-> <<>>, todo |-> {}, fpos |-> 0,
     out |-> <<>>, opens |-> 0, fetches |-> 0, closes |-> 0, last_tag |-> <<>>,
     written |-> {}]

\* mutant: a new event starts untagged
new_list_untagged(rows) ==
    [mode |-> "list", fetch_size |-> 0, fetch_status |-> 0,
     length |-> Len(rows), ids |-> rows, page |-> <<>>, row |-> 0, fetched |-> 0,
     yielded |-> {},
     status |-> [e \in {rows[i] : i \in DOMAIN rows} |->
                    [st |-> EV_UNTAGGED, retry_time |-> 60]],
     status_map |-> <<>>, todo |-> {}, fpos |-> 0,
     out |-> <<>>, opens |-> 0, fetches |-> 0, closes |-> 0, last_tag |-> <<>>,
     written |-> {}]

\* _load_batch_events_old: the full list; RetriableEvent.__init__ tags Done
new_list(rows) ==
    [mode |-> "list", fetch_size |-> 0, fetch_status |-> 0,
     length |-> Len(rows), ids |-> rows, page |-> <<>>, row |-> 0, fetched |-> 0,
     yielded |-> {},
     status |-> [e \in {rows[i] : i \in DOMAIN rows} |->
                    [st |-> EV_DONE, retry_time |-> 60]],
     status_map |-> <<>>, todo |-> {}, fpos |-> 0,
     out |-> <<>>, opens |-> 0, fetches |-> 0, closes |-> 0, last_tag |-> <<>>,
     written |-> {}]

Min(a, b) == IF a < b THEN a ELSE b

\* mutant: a follow-up page starts again at the last row of the page before
cursor_rows_overlap(rows, from, n) ==
    [i \in 1 .. (Min(from + n, Len(rows)) - from) |->
        rows[from + i - (IF from > 0 THEN 1 ELSE 0)]]

\* the next `n` rows of the server-side cursor after `from` rows were read
cursor_rows(rows, from, n) ==
    [i \in 1 .. (Min(from + n, Len(rows)) - from) |-> rows[from + i]]

\* Event.__init__ / RetriableEvent.__init__: a new event object for row e
with_event(w, e) ==
    [w EXCEPT !.yielded = @ \cup {e},
              !.out = Append(@, e),
              !.status = [x \in DOMAIN @ \cup {e} |->
                            IF x = e THEN [st |-> EV_DONE, retry_time |-> 60]
                            ELSE @[x]]]

\* mutant: length is the size of the last page, not the sum of the pages
walker_page_last_count(w, page) ==
    IF Len(page) = 0
    THEN [w EXCEPT !.page = <<>>, !.row = 0, !.closes = @ + 1, !.fetch_status = 2]
    ELSE with_event([w EXCEPT !.page = page, !.row = 1,
                              !.length = Len(page),
                              !.fetched = @ + Len(page)], page[1])

\* mutant: a short page closes the cursor and marks the walker done as soon
\* as it is fetched, before its rows have been taken
walker_page_done_on_short(w, page) ==
    IF Len(page) = 0
    THEN [w EXCEPT !.page = <<>>, !.row = 0, !.closes = @ + 1, !.fetch_status = 2]
    ELSE IF Len(page) < w.fetch_size
    THEN with_event([w EXCEPT !.page = page, !.row = 1,
                              !.length = @ + Len(page),
                              !.fetched = @ + Len(page),
                              !.closes = @ + 1, !.fetch_status = 2], page[1])
    ELSE with_event([w EXCEPT !.page = page, !.row = 1,
                              !.length = @ + Len(page),
                              !.fetched = @ + Len(page)], page[1])

\* BaseBatchWalker.__iter__, top of the while loop with a page just read:
\* an empty page closes the cursor, otherwise its first row is yielded
walker_page(w, page) ==
    IF Len(page) = 0
    THEN [w EXCEPT !.page = <<>>, !.row = 0, !.closes = @ + 1, !.fetch_status = 2]
    ELSE with_event([w EXCEPT !.page = page, !.row = 1,
                              !.length = @ + Len(page),
                              !.fetched = @ + Len(page)], page[1])

\* mutant: a short page does not end the iteration; only an empty page does
walker_next_always_fetch(w, rows) ==
    IF w.fetch_status = 0
    THEN walker_page([w EXCEPT !.fetch_status = 1, !.ids = rows, !.opens = @ + 1],
                     cursor_rows(rows, 0, w.fetch_size))
    ELSE IF w.row < Len(w.page)
    THEN with_event([w EXCEPT !.row = @ + 1], w.page[w.row + 1])
    ELSE walker_page([w EXCEPT !.fetches = @ + 1],
                     cursor_rows(w.ids, w.fetched, w.fetch_size))

\* BaseBatchWalker.__iter__ resumed by next(): opens the cursor on the first
\* call, yields the next row of the page, fetches the next page after a full
\* one, closes the cursor after a short one
walker_next(w, rows) ==
    IF w.fetch_status = 0
    THEN walker_page([w EXCEPT !.fetch_status = 1, !.ids = rows, !.opens = @ + 1],
                     cursor_rows(rows, 0, w.fetch_size))
    ELSE IF w.row < Len(w.page)
    THEN with_event([w EXCEPT !.row = @ + 1], w.page[w.row + 1])
    ELSE IF Len(w.page) < w.fetch_size
    THEN [w EXCEPT !.closes = @ + 1, !.fetch_status = 2]
    ELSE walker_page([w EXCEPT !.fetches = @ + 1],
                     cursor_rows(w.ids, w.fetched, w.fetch_size))

\* iterating the eager list
list_next(w) ==
    [w EXCEPT !.row = @ + 1, !.yielded = @ \cup {w.ids[w.row + 1]},
              !.out = Append(@, w.ids[w.row + 1])]

\* delays the callback passes to tag_retry (60 is the default)
RetryTimes == {30, 60}
Tags == {<<"done", 0>>, <<"untag", 0>>} \cup {<<"retry", t>> : t \in RetryTimes}

\* the last tag_done / tag_retry call made on each event (a direct write of
\* ev._status is no such call)
tag_call(last, e, tag) ==
    IF tag[1] = "untag" THEN last
    ELSE [x \in DOMAIN last \cup {e} |-> IF x = e THEN tag ELSE last[x]]

\* RetriableBatchWalker.get_status / RetriableWalkerEvent.get_status
walker_get_status(w, e) ==
    IF e \in DOMAIN w.status_map THEN w.status_map[e][1] ELSE EV_DONE

\* mutant: tag_retry does not keep the delay it was given
list_tag_default_delay(w, e, tag) ==
    IF tag[1] = "done" THEN [w EXCEPT !.status[e].st = EV_DONE]
    ELSE IF tag[1] = "retry"
    THEN [w EXCEPT !.status[e].st = EV_RETRY]
    ELSE [w EXCEPT !.status[e].st = EV_UNTAGGED]

\* RetriableEvent.tag_done / tag_retry on an event of the eager list, and a
\* callback writing ev._status = EV_UNTAGGED
list_tag(w, e, tag) ==
    IF tag[1] = "done" THEN [w EXCEPT !.status[e].st = EV_DONE]
    ELSE IF tag[1] = "retry"
    THEN [w EXCEPT !.status[e] = [st |-> EV_RETRY, retry_time |-> tag[2]]]
    ELSE [w EXCEPT !.status[e].st = EV_UNTAGGED]

\* mutant: tag_done records Done in the status map instead of deleting the
\* entry
walker_tag_keep(w, e, tag) ==
    IF tag[1] = "done"
    THEN [w EXCEPT !.status_map = [x \in DOMAIN @ \cup {e} |->
                                     IF x = e THEN <<EV_DONE, 0>> ELSE @[x]]]
    ELSE IF tag[1] = "retry"
    THEN [w EXCEPT !.status_map = [x \in DOMAIN @ \cup {e} |->
                                     IF x = e THEN <<EV_RETRY, tag[2]>> ELSE @[x]]]
    ELSE [w EXCEPT !.status[e].st = EV_UNTAGGED]

\* RetriableWalkerEvent.tag_done / tag_retry: redirected to the walker's
\* status_map (tag_event_done / tag_event_retry); ev._status stays a slot of
\* the event object
walker_tag(w, e, tag) ==
    IF tag[1] = "done"
    THEN [w EXCEPT !.status_map = [x \in DOMAIN @ \ {e} |-> @[x]]]
    ELSE IF tag[1] = "retry"
    THEN [w EXCEPT !.status_map = [x \in DOMAIN @ \cup {e} |->
                                     IF x = e THEN <<EV_RETRY, tag[2]>> ELSE @[x]]]
    ELSE [w EXCEPT !.status[e].st = EV_UNTAGGED]

\* work(): "load events" -- self._load_batch_events(curs, batch_id); db.commit()
load_batch_events ==
    /\ pc = "load_events"
    /\ ev_list' = IF conf.pgq_lazy_fetch # 0 THEN new_walker
                  ELSE new_list(engine_batch_rows(src_tx))
    /\ pc' = "process"
    /\ UNCHANGED <<srcVars, dstVars, conf, state, batch_id, batch_info,
                   provider_connstr, work_state, adm, obsVars, fnVars>>

\* Consumer / CoopConsumer flush retries before the acknowledgment,
\* BaseConsumer._finish_batch acknowledges at once
HasRetry == conf.klass \in {"Consumer", "CoopConsumer"}

\* mutant: the acknowledgment is sent without flushing the retries
after_process_noflush == "finish"

\* where work() goes when _launch_process_batch has returned
after_process == IF HasRetry THEN "flush" ELSE "finish"

\* BaseConsumer._finish_batch / CoopConsumer._finish_batch (after the flush):
\* select pgq.finish_batch(batch_id)
finish_batch ==
    /\ pc = "finish"
    /\ src_tx' = row_after_finish_batch(src_tx, batch_id)
    /\ src' = IF Autocommit THEN src_tx' ELSE src
    /\ cyc' = [cyc EXCEPT !.finished = @ + 1, !.fin_q = finish_batch_query]
    /\ pc' = "fin_commit"
    /\ UNCHANGED <<top_tick, batch_seq, dstVars, conf, state, batch_id, batch_info,
                   provider_connstr, work_state, ev_list, adm, held, acked,
                   done_hist, fnVars>>

\* work(): db.commit(); self.stat_end(len(ev_list)); return 1
finish_commit ==
    /\ pc = "fin_commit"
    /\ src' = src_tx
    /\ acked' = IF src.batch # NULL /\ src_tx.batch = NULL
                THEN acked \cup {src.next_tick} ELSE acked
    /\ held' = NULL
    /\ batch_id' = NULL
    /\ work_state' = 1
    /\ ev_list' = NoEvents
    /\ cyc' = NoCycle
    /\ pc' = "idle"
    /\ UNCHANGED <<top_tick, batch_seq, src_tx, dstVars, conf, state, batch_info,
                   provider_connstr, adm, done_hist, fnVars>>

\* positions inside work()
InWork == {"fetch_state", "tag_refreshed", "clear_error", "pause_check",
           "update_conn", "dispatch", "next_batch", "acq_commit", "load_events",
           "process", "remote_batch", "finish_remote", "flush", "finish",
           "fin_commit", "local_batch", "set_done"}

\* a statement of work() fails (connection loss, server error): the
\* exception leaves work()
Raise ==
    /\ pc \in InWork
    /\ pc' = "exception"
    /\ UNCHANGED <<srcVars, dstVars, conf, state, batch_id, batch_info,
                   provider_connstr, work_state, ev_list, adm, obsVars, fnVars>>

\* the process dies and is started again: open transactions are rolled
\* back, the new process starts from __init__
Crash ==
    /\ pc # "idle"
    /\ src_tx' = src
    /\ dst_pending' = <<>>
    /\ pc' = "idle"
    /\ state' = NoState
    /\ batch_id' = NULL
    /\ batch_info' = NoBatch
    /\ provider_connstr' = NoLocation
    /\ work_state' = 1
    /\ ev_list' = NoEvents
    /\ held' = NULL
    /\ cyc' = NoCycle
    /\ provider_db' = NoLocation
    /\ UNCHANGED <<top_tick, batch_seq, src, dst, applied, conf, adm, acked,
                   done_hist, fn, bw, reg, evq>>

\* ------------------------------------------------------- CascadedConsumer

\* work(): dst_db = self.get_database(...); refresh_state is entered
cascade_work ==
    /\ pc = "idle"
    /\ conf.klass = "CascadedConsumer"
    /\ cyc' = NoCycle
    /\ pc' = "fetch_state"
    /\ UNCHANGED <<srcVars, dstVars, conf, state, batch_id, batch_info,
                   provider_connstr, work_state, ev_list, adm, held, acked,
                   done_hist, fnVars>>

\* refresh_state: select * from pgq_node.get_consumer_state(...)
fetch_state ==
    /\ pc = "fetch_state"
    /\ state' = dst
    /\ cyc' = [cyc EXCEPT !.unpaused = ~dst.paused, !.waited = @ \/ dst.paused,
                          !.tagged = "none", !.cleared = "none"]
    /\ pc' = "tag_refreshed"
    /\ UNCHANGED <<srcVars, dstVars, conf, batch_id, batch_info, provider_connstr,
                   work_state, ev_list, adm, held, acked, done_hist, fnVars>>

\* mutant: a paused consumer does not signal that it is up to date
needs_uptodate_unpaused(st) == ~st.uptodate /\ ~st.paused

\* refresh_state: if not state['uptodate'] and full_logic (work() is the
\* only caller and leaves full_logic at its default, True)
needs_uptodate(st) == ~st.uptodate

\* refresh_state: "tag refreshed" -- set_consumer_uptodate(true)
tag_refreshed ==
    /\ pc = "tag_refreshed"
    /\ dst' = IF needs_uptodate(state) THEN [dst EXCEPT !.uptodate = TRUE] ELSE dst
    /\ cyc' = [cyc EXCEPT !.tagged = IF needs_uptodate(state) THEN "called"
                                     ELSE "skipped"]
    /\ pc' = "clear_error"
    /\ UNCHANGED <<srcVars, applied, dst_pending, conf, state, batch_id, batch_info,
                   provider_connstr, work_state, ev_list, adm, held, acked,
                   done_hist, fnVars>>

\* mutant: a recorded error is cleared whatever the script's own state
needs_clear_always(st, ws) == st.cur_error

\* refresh_state: if state['cur_error'] and self.work_state != -1
needs_clear(st, ws) == st.cur_error /\ ws # -1

\* refresh_state: set_consumer_error(NULL) unless the script is in error state
clear_error ==
    /\ pc = "clear_error"
    /\ dst' = IF needs_clear(state, work_state)
              THEN [dst EXCEPT !.cur_error = FALSE] ELSE dst
    /\ cyc' = [cyc EXCEPT !.cleared = IF needs_clear(state, work_state)
                                      THEN "called" ELSE "skipped"]
    /\ pc' = "pause_check"
    /\ UNCHANGED <<srcVars, applied, dst_pending, conf, state, batch_id, batch_info,
                   provider_connstr, work_state, ev_list, adm, held, acked,
                   done_hist, fnVars>>

\* mutant: the pause flag is not looked at
pause_target_ignore(st) == "update_conn"

\* mutant: the loop has no way out
pause_target_stuck(st) == "fetch_state"

\* where refresh_state goes after one fetch: out of the loop, or sleep and
\* fetch again
pause_target(st) == IF ~st.paused THEN "update_conn" ELSE "fetch_state"

\* refresh_state: if not state['paused']: break; time.sleep(loop_delay)
pause_check ==
    /\ pc = "pause_check"
    /\ pc' = pause_target(state)
    /\ UNCHANGED <<srcVars, dstVars, conf, state, batch_id, batch_info,
                   provider_connstr, work_state, ev_list, adm, obsVars, fnVars>>

\* mutant: the connection is set up once and kept whatever the state says
conn_changed_first_only(cs, loc) == cs = NoLocation /\ cs # loc

\* refresh_state: if self.provider_connstr != loc
conn_changed(cs, loc) == cs # loc

\* refresh_state: "update connection" -- close_database(PDB), the cached
\* location replaced, get_provider_db(state) connects again (or fails to)
update_conn ==
    /\ pc = "update_conn"
    /\ IF conn_changed(provider_connstr, state.provider_location)
       THEN /\ cyc' = [cyc EXCEPT !.closed = {provider_db}]
            /\ provider_connstr' = state.provider_location
            /\ \E opened \in BOOLEAN :
                 /\ provider_db' = IF opened THEN state.provider_location
                                   ELSE NoLocation
                 /\ pc' = IF opened THEN "dispatch" ELSE "exception"
       ELSE /\ pc' = "dispatch"
            /\ UNCHANGED <<cyc, provider_connstr, provider_db>>
    /\ UNCHANGED <<srcVars, dstVars, conf, state, batch_id, batch_info, work_state,
                   ev_list, adm, held, acked, done_hist, fn, bw, reg, evq>>

\* get_provider_db(state): the cached provider connection is used if it was
\* opened with the state's location (a new one is opened if there is none);
\* a cached connection to another location is refused by get_database
provider_db_target(loc) ==
    IF provider_db \in {NoLocation, loc} THEN "next_batch" ELSE "exception"

\* mutant: a consumer without provider goes on to fetch a batch
provider_missing_never(cs) == FALSE

\* work(): if not self.provider_connstr: raise Exception(...)
provider_missing(cs) == cs = NoLocation

\* mutant: a root node is treated like any other node
cascade_dispatch_no_root ==
    /\ pc = "dispatch"
    /\ pc' = IF provider_connstr = NoLocation THEN "exception" ELSE "next_batch"
    /\ UNCHANGED <<srcVars, dstVars, conf, state, batch_id, batch_info,
                   provider_connstr, work_state, ev_list, adm, obsVars, fnVars>>

\* work(): root node / missing provider / super().work()
cascade_dispatch ==
    /\ pc = "dispatch"
    /\ IF state.node_type = "root"
       THEN /\ pc' = "idle"
            /\ work_state' = 0
            /\ cyc' = NoCycle
       ELSE /\ pc' = IF provider_missing(provider_connstr) THEN "exception"
                     ELSE provider_db_target(state.provider_location)
            /\ cyc' = [cyc EXCEPT !.no_provider = provider_missing(provider_connstr)]
            /\ UNCHANGED work_state
    /\ provider_db' = IF state.node_type # "root"
                         /\ ~provider_missing(provider_connstr)
                         /\ provider_db = NoLocation
                      THEN state.provider_location ELSE provider_db
    /\ UNCHANGED <<srcVars, dstVars, conf, state, batch_id, batch_info,
                   provider_connstr, ev_list, adm, held, acked, done_hist, fn, bw,
                   reg, evq>>

\* mutant: a new batch is acknowledged without being applied
batch_done_target_no_apply(r) ==
    IF r \in {"False", "True"} THEN "finish" ELSE "exception"

\* mutant: an already applied batch is processed again
batch_done_target_replay(r) ==
    IF r \in {"False", "True"} THEN "remote_batch" ELSE "exception"

\* mutant: work() returns from a skipped batch without acknowledging it
batch_done_target_unacked(r) ==
    IF r = "False" THEN "remote_batch"
    ELSE IF r = "True" THEN "idle"
    ELSE "exception"

\* where process_batch goes for an answer of is_batch_done
batch_done_target(r) ==
    IF r = "False" THEN "remote_batch"
    ELSE IF r = "True" THEN "finish"
    ELSE "exception"

\* process_batch: if self.is_batch_done(state, self.batch_info, dst_db): return
process_batch ==
    /\ pc = "process"
    /\ conf.klass = "CascadedConsumer"
    /\ LET r == is_batch_done(batch_info.prev_tick_id, batch_info.tick_id,
                              state.completed_tick)
       IN /\ pc' = batch_done_target(r)
          /\ cyc' = [cyc EXCEPT !.skipped = (r = "True"),
                                !.lost = (r \in {"raise_lost", "raise_null"})]
    /\ UNCHANGED <<srcVars, dstVars, conf, state, batch_id, batch_info,
                   provider_connstr, work_state, ev_list, adm, held, acked,
                   done_hist, fnVars>>

\* process_remote_batch: the per-batch callback writes the batch's changes
\* on the target connection (not committed)
process_remote_batch ==
    /\ pc = "remote_batch"
    /\ Len(applied) + Len(dst_pending) < 2 * MaxTick
    /\ dst_pending' = Append(dst_pending, batch_info.tick_id)
    /\ cyc' = [cyc EXCEPT !.callbacks = @ + 1]
    /\ pc' = "finish_remote"
    /\ UNCHANGED <<srcVars, dst, applied, conf, state, batch_id, batch_info,
                   provider_connstr, work_state, ev_list, adm, held, acked,
                   done_hist, fnVars>>

\* process_remote_batch / process_remote_event raises
remote_batch_raise ==
    /\ pc = "remote_batch"
    /\ cyc' = [cyc EXCEPT !.callbacks = @ + 1, !.cb_raised = TRUE]
    /\ pc' = "exception"
    /\ UNCHANGED <<srcVars, dstVars, conf, state, batch_id, batch_info,
                   provider_connstr, work_state, ev_list, adm, held, acked,
                   done_hist, fnVars>>

\* the target row after pgq_node.set_consumer_completed(queue, consumer, tick)
set_consumer_completed(row, tick_id) == [row EXCEPT !.completed_tick = tick_id]

\* finish_remote_batch: set_consumer_completed, "this also commits"
finish_remote_batch ==
    /\ pc = "finish_remote"
    /\ dst' = set_consumer_completed(dst, batch_info.tick_id)
    /\ applied' = applied \o dst_pending
    /\ dst_pending' = <<>>
    /\ done_hist' = done_hist \cup {dst'.completed_tick}
    /\ cyc' = [cyc EXCEPT !.completed = @ + 1]
    /\ pc' = "finish"
    /\ UNCHANGED <<srcVars, conf, state, batch_id, batch_info, provider_connstr,
                   work_state, ev_list, adm, held, acked, fnVars>>

\* mutant: a failure of set_consumer_error leaves the hook: no reset, no base
\* handling, the script ends with the second exception
exception_hook_unguarded ==
    /\ pc = "exception"
    /\ src_tx' = src
    /\ dst_pending' = <<>>
    /\ \E written \in BOOLEAN :
         IF written
         THEN /\ dst' = IF conf.klass = "CascadedConsumer"
                        THEN [dst EXCEPT !.cur_error = TRUE] ELSE dst
              /\ work_state' = -1
              /\ batch_id' = NULL
              /\ held' = NULL
              /\ ev_list' = NoEvents
              /\ cyc' = NoCycle
              /\ pc' = "idle"
         ELSE /\ pc' = "failed"
              /\ UNCHANGED <<dst, work_state, batch_id, held, ev_list, cyc>>
    /\ UNCHANGED <<top_tick, batch_seq, src, applied, conf, state, batch_info,
                   provider_connstr, adm, acked, done_hist, fnVars>>

\* exception_hook (after DBScript has reset the connections): the error is
\* written to the registry, or that write fails; work() is over with -1
exception_hook ==
    /\ pc = "exception"
    /\ src_tx' = src
    /\ dst_pending' = <<>>
    /\ \E written \in BOOLEAN :
         dst' = IF written /\ conf.klass = "CascadedConsumer"
                THEN [dst EXCEPT !.cur_error = TRUE] ELSE dst
    /\ work_state' = -1
    /\ batch_id' = NULL
    /\ held' = NULL
    /\ ev_list' = NoEvents
    /\ cyc' = NoCycle
    /\ pc' = "idle"
    /\ UNCHANGED <<top_tick, batch_seq, src, applied, conf, state, batch_info,
                   provider_connstr, adm, acked, done_hist, fnVars>>

\* the administrator pauses / resumes the consumer on the target node
\* (pgq_node.set_consumer_paused): the flag changes and uptodate is cleared
admin_pause ==
    /\ \E p \in BOOLEAN :
         /\ p # dst.paused
         /\ dst' = [dst EXCEPT !.paused = p, !.uptodate = FALSE]
    /\ UNCHANGED <<srcVars, applied, dst_pending, procVars, adm, obsVars, fnVars>>

\* ------------------------------------------------------- specifications
CascadeConf ==
    [klass |-> "CascadedConsumer", pgq_lazy_fetch |-> 2, pgq_autocommit |-> 0,
     subconsumer_timeout |-> "", consumer_filter |-> NoFilter]

\* the consumer was registered by register_consumer: the source subscription
\* and the target registry both stand at the queue's first tick
Registered(nt, loc) ==
    [completed_tick |-> 1, paused |-> FALSE, uptodate |-> TRUE,
     cur_error |-> FALSE, node_type |-> nt, provider_location |-> loc]

\* everything but the registry row, the configuration, the event list and
\* fn / bw
InitProcess ==
    /\ top_tick = 1
    /\ batch_seq = 0
    /\ src = SubRow(1)
    /\ src_tx = SubRow(1)
    /\ applied = <<>>
    /\ dst_pending = <<>>
    /\ pc = "idle"
    /\ state = NoState
    /\ batch_id = NULL
    /\ batch_info = NoBatch
    /\ provider_connstr = NoLocation
    /\ work_state = 1
    /\ adm = NoAdmin
    /\ cyc = NoCycle
    /\ held = NULL
    /\ acked = {}
    /\ done_hist = {1}
    /\ reg = NoReg
    /\ provider_db = NoLocation
    /\ evq = NoQueue

\* the same, with no event list loaded and no walker driven on its own
InitCommon ==
    /\ InitProcess
    /\ ev_list = NoEvents
    /\ bw = NoWalkerRun

Init ==
    /\ InitCommon
    /\ \E nt \in NodeTypes, loc \in Locations : dst = Registered(nt, loc)
    /\ conf = CascadeConf
    /\ fn = NoFn

Next ==
    \/ Tick
    \/ cascade_work
    \/ fetch_state
    \/ tag_refreshed
    \/ clear_error
    \/ pause_check
    \/ update_conn
    \/ cascade_dispatch
    \/ load_next_batch
    \/ acquire_commit
    \/ load_batch_events
    \/ process_batch
    \/ process_remote_batch
    \/ remote_batch_raise
    \/ finish_remote_batch
    \/ finish_batch
    \/ finish_commit
    \/ Raise
    \/ Crash
    \/ exception_hook
    \/ admin_pause

Spec == Init /\ [][Next]_vars

\* ---- the cascaded consumer as a running process

\* the next statement of the script: DBScript's loop calls work() again and
\* again, work() runs its statements one after the other, time.sleep returns
Running ==
    \/ cascade_work
    \/ fetch_state
    \/ tag_refreshed
    \/ clear_error
    \/ pause_check
    \/ update_conn
    \/ cascade_dispatch
    \/ load_next_batch
    \/ acquire_commit
    \/ load_batch_events
    \/ process_batch
    \/ process_remote_batch
    \/ finish_remote_batch
    \/ finish_batch
    \/ finish_commit
    \/ exception_hook

\* the process is not stopped for ever in the middle of work(): a statement
\* that can run does run (or fails, or the process is restarted)
SpecRunning == Init /\ [][Next]_vars /\ WF_vars(Running)

\* ---- the cascaded consumer while its provider is changed on the target
Providers == {"db1", "db2"}

\* the administrator moves the consumer to another provider
\* (pgq_node.change_consumer_provider): the registry's provider location
\* changes and uptodate is cleared
change_provider ==
    /\ \E loc \in Providers :
         /\ loc # dst.provider_location
         /\ dst' = [dst EXCEPT !.provider_location = loc, !.uptodate = FALSE]
    /\ UNCHANGED <<srcVars, applied, dst_pending, procVars, adm, obsVars, fnVars>>

InitProvider ==
    /\ InitCommon
    /\ \E loc \in Providers : dst = Registered("leaf", loc)
    /\ conf = CascadeConf
    /\ fn = NoFn

NextProvider ==
    \/ Tick
    \/ cascade_work
    \/ fetch_state
    \/ tag_refreshed
    \/ clear_error
    \/ pause_check
    \/ update_conn
    \/ cascade_dispatch
    \/ load_next_batch
    \/ acquire_commit
    \/ load_batch_events
    \/ process_batch
    \/ process_remote_batch
    \/ remote_batch_raise
    \/ finish_remote_batch
    \/ finish_batch
    \/ finish_commit
    \/ Raise
    \/ Crash
    \/ exception_hook
    \/ change_provider

SpecProvider == InitProvider /\ [][NextProvider]_vars

\* ---- the cascaded consumer with the administrative commands run beside it

\* rewind: state = self.get_consumer_state(); dst_tick = state['completed_tick']
rewind_read ==
    /\ adm.pc = "idle"
    /\ adm.ops < MaxAdminOps
    /\ adm' = [pc |-> "rewind", tick |-> dst.completed_tick, ops |-> adm.ops + 1]
    /\ UNCHANGED <<srcVars, dstVars, procVars, obsVars, fnVars>>

\* rewind: if dst_tick: pgq.register_consumer_at(queue, consumer, dst_tick);
\* commit.  The subscription row is locked while the consumer's transaction
\* has changed it.
rewind_apply ==
    /\ adm.pc = "rewind"
    /\ src_tx = src
    /\ src' = IF adm.tick # NULL /\ adm.tick # 0
              THEN row_after_register_at(src, adm.tick) ELSE src
    /\ src_tx' = src'
    /\ adm' = [adm EXCEPT !.pc = "idle", !.tick = NULL]
    /\ UNCHANGED <<top_tick, batch_seq, dstVars, procVars, obsVars, fnVars>>

\* dst_reset: select last_tick from pgq.get_consumer_info(...); commit
dst_reset_read ==
    /\ adm.pc = "idle"
    /\ adm.ops < MaxAdminOps
    /\ adm' = [pc |-> "reset", tick |-> src.last_tick, ops |-> adm.ops + 1]
    /\ UNCHANGED <<srcVars, dstVars, procVars, obsVars, fnVars>>

\* dst_reset: pgq_node.set_consumer_completed(queue, consumer, last_tick); commit
dst_reset_apply ==
    /\ adm.pc = "reset"
    /\ dst' = set_consumer_completed(dst, adm.tick)
    /\ done_hist' = done_hist \cup {adm.tick}
    /\ adm' = [adm EXCEPT !.pc = "idle", !.tick = NULL]
    /\ UNCHANGED <<srcVars, applied, dst_pending, procVars, cyc, held, acked, fnVars>>

InitAdmin ==
    /\ InitCommon
    /\ dst = Registered("leaf", "db1")
    /\ conf = CascadeConf
    /\ fn = NoFn

NextAdmin ==
    \/ Tick
    \/ cascade_work
    \/ fetch_state
    \/ tag_refreshed
    \/ clear_error
    \/ pause_check
    \/ update_conn
    \/ cascade_dispatch
    \/ load_next_batch
    \/ acquire_commit
    \/ load_batch_events
    \/ process_batch
    \/ process_remote_batch
    \/ remote_batch_raise
    \/ finish_remote_batch
    \/ finish_batch
    \/ finish_commit
    \/ Raise
    \/ Crash
    \/ exception_hook
    \/ rewind_read
    \/ rewind_apply
    \/ dst_reset_read
    \/ dst_reset_apply

SpecAdmin == InitAdmin /\ [][NextAdmin]_vars

\* ---------------------------------------------- Consumer / CoopConsumer

\* DBScript calls work() (BaseConsumer.work is entered)
consumer_work ==
    /\ pc = "idle"
    /\ conf.klass \in {"Consumer", "CoopConsumer"}
    /\ cyc' = NoCycle
    /\ pc' = "next_batch"
    /\ UNCHANGED <<srcVars, dstVars, conf, state, batch_id, batch_info,
                   provider_connstr, work_state, ev_list, adm, held, acked,
                   done_hist, fnVars>>

\* the callback (process_batch) takes the next event of ev_list
cb_next ==
    /\ pc = "process"
    /\ HasRetry
    /\ IF ev_list.mode = "walker"
       THEN /\ ev_list.fetch_status \in {0, 1}
            /\ src_tx.batch = batch_id
            /\ ev_list' = walker_next(ev_list, engine_batch_rows(src_tx))
       ELSE /\ ev_list.row < Len(ev_list.ids)
            /\ ev_list' = list_next(ev_list)
    /\ UNCHANGED <<srcVars, dstVars, conf, pc, state, batch_id, batch_info,
                   provider_connstr, work_state, adm, obsVars, fnVars>>

\* the callback tags an event it was given: ev.tag_done(), ev.tag_retry(t),
\* or leaves it untagged by hand
cb_tag ==
    /\ pc = "process"
    /\ HasRetry
    /\ \E e \in ev_list.yielded, tag \in Tags :
         ev_list' = [(IF ev_list.mode = "walker" THEN walker_tag(ev_list, e, tag)
                      ELSE list_tag(ev_list, e, tag))
                        EXCEPT !.last_tag = tag_call(@, e, tag),
                               !.written = IF tag[1] = "untag" THEN @ \cup {e}
                                           ELSE @]
    /\ UNCHANGED <<srcVars, dstVars, conf, pc, state, batch_id, batch_info,
                   provider_connstr, work_state, adm, obsVars, fnVars>>

\* mutant: the exception of the callback is swallowed and the cycle goes on
cb_raise_swallowed ==
    /\ pc = "process"
    /\ HasRetry
    /\ cyc' = [cyc EXCEPT !.callbacks = @ + 1, !.cb_raised = TRUE]
    /\ ev_list' = [ev_list EXCEPT !.todo = DOMAIN ev_list.status_map, !.fpos = 0]
    /\ pc' = after_process
    /\ UNCHANGED <<srcVars, dstVars, conf, state, batch_id, batch_info,
                   provider_connstr, work_state, adm, held, acked, done_hist,
                   fnVars>>

\* process_batch / process_event raises: the exception leaves work()
cb_raise ==
    /\ pc = "process"
    /\ HasRetry
    /\ cyc' = [cyc EXCEPT !.callbacks = @ + 1, !.cb_raised = TRUE]
    /\ pc' = "exception"
    /\ UNCHANGED <<srcVars, dstVars, conf, state, batch_id, batch_info,
                   provider_connstr, work_state, ev_list, adm, held, acked,
                   done_hist, fnVars>>

\* process_batch returns; _finish_batch is entered, _flush_retry starts its
\* loop over the status map / the list
cb_return ==
    /\ pc = "process"
    /\ HasRetry
    /\ cyc' = [cyc EXCEPT !.callbacks = @ + 1]
    /\ ev_list' = [ev_list EXCEPT !.todo = DOMAIN ev_list.status_map, !.fpos = 0]
    /\ pc' = after_process
    /\ UNCHANGED <<srcVars, dstVars, conf, state, batch_id, batch_info,
                   provider_connstr, work_state, adm, held, acked, done_hist,
                   fnVars>>

\* _flush_retry takes the walker branch
FlushWalker == conf.pgq_lazy_fetch # 0 /\ ev_list.mode = "walker"

\* items _flush_retry can visit next: an entry of status_map (dict order is
\* left open), or the next event of the list
flush_items ==
    IF FlushWalker
    THEN {[id |-> e, st |-> ev_list.status_map[e][1],
           retry_time |-> ev_list.status_map[e][2]] : e \in ev_list.todo}
    ELSE {[id |-> ev_list.ids[i], st |-> ev_list.status[ev_list.ids[i]].st,
           retry_time |-> ev_list.status[ev_list.ids[i]].retry_time] :
             i \in {j \in {ev_list.fpos + 1} : j <= Len(ev_list.ids)}}

\* mutant: pgq.event_retry registers nothing
row_after_event_retry_dropped(row, id, ev_id, retry_time) == row

\* the row after pgq.event_retry(batch_id, ev_id, retry_time)
row_after_event_retry(row, id, ev_id, retry_time) ==
    [row EXCEPT !.retry = @ \cup {<<id, ev_id, retry_time>>}]

\* _flush_retry: one turn of its loop
flush_retry ==
    /\ pc = "flush"
    /\ \E it \in flush_items :
         /\ ev_list' = [ev_list EXCEPT !.todo = @ \ {it.id},
                                       !.fpos = IF FlushWalker THEN @ ELSE @ + 1]
         /\ IF it.st = EV_RETRY
            THEN /\ src_tx' = row_after_event_retry(src_tx, batch_id, it.id,
                                                    it.retry_time)
                 /\ src' = IF Autocommit THEN src_tx' ELSE src
                 /\ cyc' = [cyc EXCEPT !.retries = @ + 1,
                                       !.calls = @ \cup {<<it.id, it.retry_time>>}]
                 /\ pc' = "flush"
            ELSE IF it.st # EV_DONE
            THEN /\ cyc' = [cyc EXCEPT !.flush_raised = TRUE]
                 /\ pc' = "exception"
                 /\ UNCHANGED <<src, src_tx>>
            ELSE /\ pc' = "flush"
                 /\ UNCHANGED <<src, src_tx, cyc>>
    /\ UNCHANGED <<top_tick, batch_seq, dstVars, conf, state, batch_id, batch_info,
                   provider_connstr, work_state, adm, held, acked, done_hist,
                   fnVars>>

\* _flush_retry has visited everything and returns; _finish_batch goes on to
\* finish_batch
flush_done ==
    /\ pc = "flush"
    /\ flush_items = {}
    /\ pc' = "finish"
    /\ UNCHANGED <<srcVars, dstVars, conf, state, batch_id, batch_info,
                   provider_connstr, work_state, ev_list, adm, obsVars, fnVars>>

Klasses == {"Consumer", "CoopConsumer"}

\* pgq_lazy_fetch (0 disables the walker) and pgq_autocommit as configured;
\* __init__ refuses autocommit together with lazy fetch
Configs ==
    {[klass |-> k, pgq_lazy_fetch |-> lf, pgq_autocommit |-> ac,
      subconsumer_timeout |-> "", consumer_filter |-> NoFilter] :
        k \in Klasses, lf \in {0, 2}, ac \in {0, 1}} \
    {c \in [klass : Klasses, pgq_lazy_fetch : {0, 2}, pgq_autocommit : {0, 1},
            subconsumer_timeout : {""}, consumer_filter : {NoFilter}] :
        c.pgq_autocommit # 0 /\ c.pgq_lazy_fetch # 0}

\* the consumer is registered on the queue at its first tick
InitConsumer ==
    /\ InitCommon
    /\ dst = NoState
    /\ conf \in Configs
    /\ fn = NoFn

NextConsumer ==
    \/ Tick
    \/ consumer_work
    \/ load_next_batch
    \/ acquire_commit
    \/ load_batch_events
    \/ cb_next
    \/ cb_tag
    \/ cb_raise
    \/ cb_return
    \/ flush_retry
    \/ flush_done
    \/ finish_batch
    \/ finish_commit
    \/ Raise
    \/ Crash
    \/ exception_hook

SpecConsumer == InitConsumer /\ [][NextConsumer]_vars

\* ---- a batch walker alone: every batch size, page size and filter
\* events of the batch behind the cursor (ids 1..N)
MaxEvents == 5
\* page sizes (pgq_lazy_fetch 1..MaxPage)
MaxPage == 3
\* for statements started on one walker
MaxLoops == 2

\* ev_extra1 of an event: the table it came from
table_of(e) == IF e % 2 = 1 THEN "t1" ELSE "t2"

\* table_filter as configured: none, or the events of table t1
Filters == {NoFilter, "t1"}

\* the rows pgq.get_batch_events(batch) where <filter> and
\* pgq.get_batch_cursor(batch, .., filter) hand out, in queue order
batch_events_where(events, filter) ==
    SelectSeq(events, LAMBDA e : filter = NoFilter \/ table_of(e) = filter)

\* the rows behind the walker's cursor: __iter__ passes self.consumer_filter
walker_rows == batch_events_where(bw.events, conf.consumer_filter)

\* what _load_batch_events_old returns for the same batch
eager_list == new_list(batch_events_where(bw.events, conf.consumer_filter))

\* mutant: only a finished walker refuses a new iteration
iter_check_done_only(w) == IF w.fetch_status = 2 THEN "raise" ELSE "ok"

\* __iter__: if self.fetch_status: raise Exception("BatchWalker: double fetch?")
iter_check(w) == IF w.fetch_status # 0 THEN "raise" ELSE "ok"

\* BaseBatchWalker.__len__
walker_len(w) == w.length

\* a for statement over the walker starts: iter() and the first next()
walker_for ==
    /\ ev_list.mode = "walker"
    /\ bw.loops < MaxLoops
    /\ IF iter_check(ev_list) = "raise"
       THEN /\ bw' = [bw EXCEPT !.loops = @ + 1, !.errors = @ + 1]
            /\ UNCHANGED ev_list
       ELSE /\ bw' = [bw EXCEPT !.loops = @ + 1]
            /\ ev_list' = walker_next(ev_list, walker_rows)
    /\ UNCHANGED <<srcVars, dstVars, conf, pc, state, batch_id, batch_info,
                   provider_connstr, work_state, adm, obsVars, fn, auxVars>>

\* the running for statement takes the next event (or ends)
walker_step ==
    /\ ev_list.mode = "walker"
    /\ ev_list.fetch_status = 1
    /\ ev_list' = walker_next(ev_list, walker_rows)
    /\ UNCHANGED <<srcVars, dstVars, conf, pc, state, batch_id, batch_info,
                   provider_connstr, work_state, adm, obsVars, fnVars>>

\* len(walker) is called: the result, with the walker's progress at the call
walker_len_call ==
    /\ ev_list.mode = "walker"
    /\ bw' = [bw EXCEPT !.lens = {[fetch_status |-> ev_list.fetch_status,
                                   yielded |-> Len(ev_list.out),
                                   result |-> walker_len(ev_list)]}]
    /\ UNCHANGED <<srcVars, dstVars, procVars, adm, obsVars, fn, auxVars>>

\* work(): self.stat_end(len(ev_list)), when the callback has returned
walker_stat_end ==
    /\ ev_list.mode = "walker"
    /\ bw.stat = {}
    /\ bw.loops > 0
    /\ bw' = [bw EXCEPT !.stat = {[fetch_status |-> ev_list.fetch_status,
                                   result |-> walker_len(ev_list)]}]
    /\ UNCHANGED <<srcVars, dstVars, procVars, adm, obsVars, fn, auxVars>>

\* a walker was made by _load_batch_events for a batch of N events
InitWalker ==
    /\ InitProcess
    /\ dst = NoState
    /\ fn = NoFn
    /\ \E n \in 0 .. MaxEvents, p \in 1 .. MaxPage, f \in Filters :
          /\ conf = [klass |-> "Consumer", pgq_lazy_fetch |-> p, pgq_autocommit |-> 0,
                     subconsumer_timeout |-> "", consumer_filter |-> f]
          /\ bw = [NoWalkerRun EXCEPT !.events = [i \in 1 .. n |-> i]]
    /\ ev_list = new_walker

NextWalker ==
    \/ walker_for
    \/ walker_step
    \/ walker_len_call
    \/ walker_stat_end

SpecWalker == InitWalker /\ [][NextWalker]_vars

\* ---- is_batch_done alone: every triple of ticks, evaluated once
InitIsBatchDone ==
    /\ InitCommon
    /\ dst = Registered("leaf", "db1")
    /\ conf = CascadeConf
    /\ \E p \in 1 .. MaxFnTick, c \in 1 .. MaxFnTick,
          d \in {NULL} \cup (0 .. MaxFnTick) :
         fn = [prev |-> p, cur |-> c, dst |-> d, out |-> "none"]

is_batch_done_call ==
    /\ fn.out = "none"
    /\ fn' = [fn EXCEPT !.out = is_batch_done(fn.prev, fn.cur, fn.dst)]
    /\ UNCHANGED <<srcVars, dstVars, procVars, adm, obsVars, bw, auxVars>>

NextIsBatchDone == is_batch_done_call

SpecIsBatchDone == InitIsBatchDone /\ [][NextIsBatchDone]_vars

\* ---- is_batch_done of the three tracking consumers, on every triple

\* mutant: a missing local tick is an error, as it is for CascadedConsumer
local_is_batch_done_strict(prev_tick, cur_tick, local_tick) ==
    IF local_tick < 0 THEN "raise_null"
    ELSE IF prev_tick = local_tick THEN "False"
    ELSE IF cur_tick = local_tick THEN "True"
    ELSE "raise_lost"

\* LocalConsumer.is_batch_done(): local_tick is load_local_tick(), -1 when
\* there is no file or the file is empty
local_is_batch_done(prev_tick, cur_tick, local_tick) ==
    IF local_tick < 0 THEN "False"
    ELSE IF prev_tick = local_tick THEN "False"
    ELSE IF cur_tick = local_tick THEN "True"
    ELSE "raise_lost"

\* SerialConsumer.is_batch_done(dst_curs): dst_tick is get_last_tick(), None
\* (NULL here) when the destination has no tick for the consumer
serial_is_batch_done(prev_tick, cur_tick, dst_tick) ==
    IF dst_tick = NULL \/ dst_tick = 0 THEN "False"
    ELSE IF prev_tick = dst_tick THEN "False"
    ELSE IF cur_tick = dst_tick THEN "True"
    ELSE "raise_lost"

InitTracking ==
    /\ InitCommon
    /\ dst = NoState
    /\ conf = CascadeConf
    /\ \E k \in {"CascadedConsumer", "LocalConsumer", "SerialConsumer"},
          p \in 1 .. MaxFnTick, c \in 1 .. MaxFnTick,
          d \in {NULL} \cup (0 .. MaxFnTick) :
         fn = [klass |-> k, prev |-> p, cur |-> c, dst |-> d, out |-> "none"]

\* process_batch of the class calls its is_batch_done
tracking_is_batch_done_call ==
    /\ fn.out = "none"
    /\ fn' = [fn EXCEPT !.out =
                IF fn.klass = "LocalConsumer"
                THEN local_is_batch_done(fn.prev, fn.cur, fn.dst)
                ELSE IF fn.klass = "SerialConsumer"
                THEN serial_is_batch_done(fn.prev, fn.cur, fn.dst)
                ELSE is_batch_done(fn.prev, fn.cur, fn.dst)]
    /\ UNCHANGED <<srcVars, dstVars, procVars, adm, obsVars, bw, auxVars>>

SpecTracking == InitTracking /\ [][tracking_is_batch_done_call]_vars

\* ---- the script's start: __init__, startup, --register / --unregister

\* BaseConsumer.default_lazy_fetch
default_lazy_fetch == 300

\* what the configuration file says: a value, or nothing (NULL)
ConfigFiles == [pgq_lazy_fetch : {NULL, 0, 2}, pgq_autocommit : {NULL, 0, 1}]

\* the command line: --register, --unregister, --provider=
CommandLines ==
    [register : BOOLEAN, unregister : BOOLEAN, provider : Locations]

\* self.cf.getint(name, default)
getint(v, default) == IF v = NULL THEN default ELSE v

\* mutant: paging is off unless it is configured
reload_lazy_fetch_off(cfg) == getint(cfg.pgq_lazy_fetch, 0)

\* reload(): self.pgq_lazy_fetch = self.cf.getint("pgq_lazy_fetch",
\* self.default_lazy_fetch)
reload_lazy_fetch(cfg) == getint(cfg.pgq_lazy_fetch, default_lazy_fetch)

\* __init__: if self.pgq_autocommit and self.pgq_lazy_fetch
usage_error(ac, lf) == ac # 0 /\ lf # 0

\* BaseConsumer.__init__ (DBScript.__init__ has called reload()): the
\* object is made, or UsageError ends the script
construct ==
    /\ pc = "init"
    /\ LET lf == reload_lazy_fetch(reg.cfg)
           ac == getint(reg.cfg.pgq_autocommit, conf.pgq_autocommit)
       IN /\ conf' = [conf EXCEPT !.pgq_lazy_fetch = lf, !.pgq_autocommit = ac]
          /\ pc' = IF usage_error(ac, lf) THEN "usage_error" ELSE "startup"
    /\ UNCHANGED <<srcVars, dstVars, state, batch_id, batch_info, provider_connstr,
                   work_state, ev_list, adm, obsVars, fnVars>>

Cascaded == conf.klass = "CascadedConsumer"

\* startup(): --register and --unregister are commands that end the script;
\* without them DBScript.startup returns and the work loop follows
startup ==
    /\ pc = "startup"
    /\ pc' = IF reg.options.register
             THEN (IF Cascaded THEN "reg_provider" ELSE "reg_source")
             ELSE IF reg.options.unregister
             THEN (IF Cascaded THEN "unreg_state" ELSE "unreg_source")
             ELSE "idle"
    /\ UNCHANGED <<srcVars, dstVars, conf, state, batch_id, batch_info,
                   provider_connstr, work_state, ev_list, adm, obsVars, fnVars>>

\* mutant: the provider's node name is used without being looked at
reg_provider_unchecked ==
    /\ pc = "reg_provider"
    /\ IF reg.options.provider = NoLocation
       THEN /\ pc' = "exit"
            /\ UNCHANGED reg
       ELSE /\ reg' = [reg EXCEPT !.pnode = reg.provider_node]
            /\ pc' = "reg_source"
    /\ UNCHANGED <<srcVars, dstVars, conf, state, batch_id, batch_info,
                   provider_connstr, work_state, ev_list, adm, obsVars, fn, bw,
                   provider_db, evq>>

\* CascadedConsumer.register_consumer: the provider location must be given
\* (else sys.exit(1)); pgq_node.get_node_info on the provider, "parent node
\* not initialized?" when it has no node name
reg_provider ==
    /\ pc = "reg_provider"
    /\ IF reg.options.provider = NoLocation
       THEN /\ pc' = "exit"
            /\ UNCHANGED reg
       ELSE /\ reg' = [reg EXCEPT !.pnode = reg.provider_node]
            /\ pc' = IF reg.provider_node = NoNode THEN "failed" ELSE "reg_source"
    /\ UNCHANGED <<srcVars, dstVars, conf, state, batch_id, batch_info,
                   provider_connstr, work_state, ev_list, adm, obsVars, fn, bw,
                   provider_db, evq>>

\* no subscription of the consumer on the queue
NoSub == SubRow(NULL)

\* pgq.register_consumer(queue, consumer): a new subscription starts at the
\* newest tick, an existing one is left alone
row_after_register(row) == IF row.last_tick = NULL THEN SubRow(top_tick) ELSE row

\* a statement the registration commands have committed
Statement(q, node, tick) == [q |-> q, node |-> node, tick |-> tick]

\* BaseConsumer.register_consumer: "source queue", committed
register_source ==
    /\ pc = "reg_source"
    /\ src' = row_after_register(src)
    /\ src_tx' = src'
    /\ reg' = [reg EXCEPT !.log = Append(@, Statement("register_source", NoNode,
                                                      src'.last_tick))]
    /\ pc' = IF Cascaded THEN "reg_fetch_pos" ELSE "exit"
    /\ UNCHANGED <<top_tick, batch_seq, dstVars, conf, state, batch_id, batch_info,
                   provider_connstr, work_state, ev_list, adm, obsVars, fn, bw,
                   provider_db, evq>>

\* CascadedConsumer.register_consumer: "fetch pos" -- last_tick from
\* pgq.get_consumer_info; "registration failed?" when there is none
reg_fetch_pos ==
    /\ pc = "reg_fetch_pos"
    /\ reg' = [reg EXCEPT !.last_tick = src.last_tick]
    /\ pc' = IF src.last_tick = NULL \/ src.last_tick = 0 THEN "failed"
             ELSE "reg_target"
    /\ UNCHANGED <<srcVars, dstVars, conf, state, batch_id, batch_info,
                   provider_connstr, work_state, ev_list, adm, obsVars, fn, bw,
                   provider_db, evq>>

\* the registry row pgq_node.register_consumer(queue, consumer, provider_node,
\* tick) leaves on a node of type nt
row_after_node_register(nt, loc, tick) ==
    [Registered(nt, loc) EXCEPT !.completed_tick = tick]

\* CascadedConsumer.register_consumer: "target node", committed by exec_cmd
register_target ==
    /\ pc = "reg_target"
    /\ \E nt \in {"branch", "leaf"} :
         dst' = row_after_node_register(nt, reg.options.provider, reg.last_tick)
    /\ done_hist' = done_hist \cup {reg.last_tick}
    /\ reg' = [reg EXCEPT !.log = Append(@, Statement("register_target", reg.pnode,
                                                      reg.last_tick))]
    /\ pc' = "exit"
    /\ UNCHANGED <<srcVars, applied, dst_pending, conf, state, batch_id, batch_info,
                   provider_connstr, work_state, ev_list, adm, cyc, held, acked,
                   fn, bw,
                   provider_db, evq>>

\* CascadedConsumer.unregister_consumer: get_consumer_state (fails for an
\* unknown consumer), get_provider_db(state)
unreg_state ==
    /\ pc = "unreg_state"
    /\ pc' = IF dst.node_type = "none" THEN "failed" ELSE "unreg_source"
    /\ UNCHANGED <<srcVars, dstVars, conf, state, batch_id, batch_info,
                   provider_connstr, work_state, ev_list, adm, obsVars, fnVars>>

\* mutant: nothing is done on the source queue
unregister_source_skipped ==
    /\ pc = "unreg_source"
    /\ pc' = IF Cascaded THEN "unreg_target" ELSE "exit"
    /\ UNCHANGED <<srcVars, dstVars, conf, state, batch_id, batch_info,
                   provider_connstr, work_state, ev_list, adm, obsVars, fnVars>>

\* BaseConsumer.unregister_consumer: pgq.unregister_consumer (fails when there
\* is no subscription), committed
unregister_source ==
    /\ pc = "unreg_source"
    /\ IF src.last_tick = NULL
       THEN /\ pc' = "failed"
            /\ UNCHANGED <<src, src_tx, reg>>
       ELSE /\ src' = NoSub
            /\ src_tx' = NoSub
            /\ reg' = [reg EXCEPT !.log = Append(@, Statement("unregister_source",
                                                              NoNode, NULL))]
            /\ pc' = IF Cascaded THEN "unreg_target" ELSE "exit"
    /\ UNCHANGED <<top_tick, batch_seq, dstVars, conf, state, batch_id, batch_info,
                   provider_connstr, work_state, ev_list, adm, obsVars, fn, bw,
                   provider_db, evq>>

\* CascadedConsumer.unregister_consumer: "unregister on subscriber" --
\* pgq_node.unregister_consumer, committed by exec_cmd
unregister_target ==
    /\ pc = "unreg_target"
    /\ dst' = NoState
    /\ reg' = [reg EXCEPT !.log = Append(@, Statement("unregister_target",
                                                      NoNode, NULL))]
    /\ pc' = "exit"
    /\ UNCHANGED <<srcVars, applied, dst_pending, conf, state, batch_id, batch_info,
                   provider_connstr, work_state, ev_list, adm, obsVars, fn, bw,
                   provider_db, evq>>

\* positions inside the --register / --unregister commands
InCommand == {"reg_provider", "reg_source", "reg_fetch_pos", "reg_target",
              "unreg_state", "unreg_source", "unreg_target"}

\* a statement of the command fails (connection loss, server error): the
\* script ends with the exception
command_raise ==
    /\ pc \in InCommand
    /\ pc' = "failed"
    /\ UNCHANGED <<srcVars, dstVars, conf, state, batch_id, batch_info,
                   provider_connstr, work_state, ev_list, adm, obsVars, fnVars>>

\* another session unregisters the consumer from the source queue while the
\* command runs
other_unregister ==
    /\ pc \in InCommand
    /\ src.last_tick # NULL
    /\ src' = NoSub
    /\ src_tx' = NoSub
    /\ UNCHANGED <<top_tick, batch_seq, dstVars, procVars, adm, obsVars, fnVars>>

AllKlasses == Klasses \cup {"CascadedConsumer"}

\* the script is started: the consumer is registered on both sides, or on
\* neither
InitStartup ==
    /\ top_tick = 1
    /\ batch_seq = 0
    /\ \E registered \in BOOLEAN :
         /\ src = IF registered THEN SubRow(1) ELSE NoSub
         /\ dst = IF registered THEN Registered("leaf", "db1") ELSE NoState
         /\ done_hist = IF registered THEN {1} ELSE {}
    /\ src_tx = src
    /\ applied = <<>>
    /\ dst_pending = <<>>
    /\ \E k \in AllKlasses :
         conf = [klass |-> k, pgq_lazy_fetch |-> NULL, pgq_autocommit |-> 0,
                 subconsumer_timeout |-> "", consumer_filter |-> NoFilter]
    /\ pc = "init"
    /\ state = NoState
    /\ batch_id = NULL
    /\ batch_info = NoBatch
    /\ provider_connstr = NoLocation
    /\ work_state = 1
    /\ ev_list = NoEvents
    /\ adm = NoAdmin
    /\ cyc = NoCycle
    /\ held = NULL
    /\ acked = {}
    /\ fn = NoFn
    /\ bw = NoWalkerRun
    /\ \E cfg \in ConfigFiles, o \in CommandLines, n \in {NoNode, "n1"} :
         reg = [NoReg EXCEPT !.cfg = cfg, !.options = o, !.provider_node = n]
    /\ provider_db = NoLocation
    /\ evq = NoQueue

NextStartup ==
    \/ Tick
    \/ construct
    \/ startup
    \/ reg_provider
    \/ register_source
    \/ reg_fetch_pos
    \/ register_target
    \/ unreg_state
    \/ unregister_source
    \/ unregister_target
    \/ command_raise
    \/ other_unregister
    \/ consumer_work
    \/ load_next_batch
    \/ acquire_commit

SpecStartup == InitStartup /\ [][NextStartup]_vars

\* ---- --rewind / --reset run as the script's own command (startup runs the
\* ---- command and exits), the consumer's cycles before and after it

\* mutant: the queue position is put at the newest tick
rewind_position_top(tick) == top_tick

\* rewind: the tick given to pgq.register_consumer_at
rewind_position(tick) == tick

\* startup: if self.options.rewind: self.rewind(); sys.exit(0).  The command
\* writes on the source only, and both connections are committed at its end
cmd_rewind ==
    /\ pc = "idle"
    /\ adm.ops < MaxAdminOps
    /\ LET dst_tick == dst.completed_tick
       IN IF dst_tick # NULL /\ dst_tick # 0
          THEN /\ src' = row_after_register_at(src, rewind_position(dst_tick))
               /\ adm' = [pc |-> "rewound", tick |-> dst_tick, ops |-> adm.ops + 1]
          ELSE /\ src' = src
               /\ adm' = [pc |-> "no_tick", tick |-> NULL, ops |-> adm.ops + 1]
    /\ src_tx' = src'
    /\ UNCHANGED <<top_tick, batch_seq, dstVars, procVars, obsVars, fnVars>>

\* startup: if self.options.reset: self.dst_reset(); sys.exit(0).  last_tick
\* is read from pgq.get_consumer_info; without a row the command returns
cmd_dst_reset ==
    /\ pc = "idle"
    /\ adm.ops < MaxAdminOps
    /\ IF src # NoSub
       THEN /\ dst' = set_consumer_completed(dst, src.last_tick)
            /\ done_hist' = done_hist \cup {src.last_tick}
            /\ adm' = [pc |-> "reset", tick |-> src.last_tick, ops |-> adm.ops + 1]
       ELSE /\ UNCHANGED <<dst, done_hist>>
            /\ adm' = [pc |-> "no_row", tick |-> NULL, ops |-> adm.ops + 1]
    /\ UNCHANGED <<srcVars, applied, dst_pending, procVars, cyc, held, acked, fnVars>>

\* the positions the two sides can be found at when the command is called:
\* no subscription, a subscription at either tick, an unfinished batch; a
\* target that has completed nothing (NULL or 0) or either tick
InitRewind ==
    /\ top_tick = 2
    /\ batch_seq = 1
    /\ src \in {NoSub, SubRow(1), SubRow(2),
                [SubRow(1) EXCEPT !.batch = 1, !.next_tick = 2]}
    /\ src_tx = src
    /\ \E ct \in {NULL, 0, 1, 2} :
         dst = [Registered("leaf", "db1") EXCEPT !.completed_tick = ct]
    /\ applied = <<>>
    /\ dst_pending = <<>>
    /\ conf = CascadeConf
    /\ pc = "idle"
    /\ state = NoState
    /\ batch_id = NULL
    /\ batch_info = NoBatch
    /\ provider_connstr = NoLocation
    /\ work_state = 1
    /\ ev_list = NoEvents
    /\ adm = NoAdmin
    /\ cyc = NoCycle
    /\ held = NULL
    /\ acked = {}
    /\ done_hist = {}
    /\ fn = NoFn
    /\ bw = NoWalkerRun
    /\ reg = NoReg
    /\ provider_db = NoLocation
    /\ evq = NoQueue

NextRewind ==
    \/ Tick
    \/ cmd_rewind
    \/ cmd_dst_reset
    \/ cascade_work
    \/ fetch_state
    \/ tag_refreshed
    \/ clear_error
    \/ pause_check
    \/ update_conn
    \/ cascade_dispatch
    \/ load_next_batch
    \/ acquire_commit
    \/ load_batch_events
    \/ process_batch
    \/ process_remote_batch
    \/ remote_batch_raise
    \/ finish_remote_batch
    \/ finish_batch
    \/ finish_commit
    \/ Raise
    \/ Crash
    \/ exception_hook

SpecRewind == InitRewind /\ [][NextRewind]_vars

\* ---- the cascaded consumer with the default process_remote_batch /
\* ---- process_remote_event, on a queue whose events have types

\* event types, spelled out character by character so that ev_type[:4] can
\* be taken: "pgq.tick", "pgq" and "I"
CascadeEvTypes == {<<"p", "g", "q", ".", "t", "i", "c", "k">>, <<"p", "g", "q">>,
                   <<"I">>}

\* mutant: every event is taken for a cascading event
is_cascade_event_any(t) == TRUE

\* process_remote_event: ev.ev_type[:4] == "pgq."
is_cascade_event(t) == SubSeq(t, 1, Min(4, Len(t))) = <<"p", "g", "q", ".">>

\* ev.ev_type of the event with id e (the queue's table holds events 2, 3, ..)
ev_type_of(e) == evq.table[e - 1].ev_type

\* the event list after k rounds of "for ev in event_list" (the round after
\* the last event ends the loop)
RECURSIVE events_taken(_, _, _)
events_taken(w, rows, k) ==
    IF k = 0 THEN w
    ELSE LET v == events_taken(w, rows, k - 1)
         IN IF v.mode = "walker" THEN walker_next(v, rows)
            ELSE IF v.row < Len(v.ids) THEN list_next(v)
            ELSE v

\* process_remote_batch as CascadedConsumer defines it: process_remote_event
\* for each event in turn, which raises at the first event that is not a
\* cascading one; nothing is written on the target
default_remote_batch ==
    /\ pc = "remote_batch"
    /\ LET rows == engine_batch_rows(src_tx)
           bad == {i \in DOMAIN rows : ~is_cascade_event(ev_type_of(rows[i]))}
       IN IF bad = {}
          THEN /\ ev_list' = events_taken(ev_list, rows, Len(rows) + 1)
               /\ cyc' = [cyc EXCEPT !.callbacks = @ + 1]
               /\ pc' = "finish_remote"
          ELSE /\ ev_list' = events_taken(ev_list, rows,
                                          CHOOSE i \in bad : \A j \in bad : i <= j)
               /\ cyc' = [cyc EXCEPT !.callbacks = @ + 1, !.cb_raised = TRUE]
               /\ pc' = "exception"
    /\ UNCHANGED <<srcVars, dstVars, conf, state, batch_id, batch_info,
                   provider_connstr, work_state, adm, held, acked, done_hist,
                   fn, bw, auxVars>>

\* a registered leaf consumer, eager or lazy, on a queue with one event per
\* tick of any of the types
InitDefault ==
    /\ top_tick = 1
    /\ batch_seq = 0
    /\ src = SubRow(1)
    /\ src_tx = src
    /\ dst = Registered("leaf", "db1")
    /\ applied = <<>>
    /\ dst_pending = <<>>
    /\ conf \in {CascadeConf, [CascadeConf EXCEPT !.pgq_lazy_fetch = 0]}
    /\ pc = "idle"
    /\ state = NoState
    /\ batch_id = NULL
    /\ batch_info = NoBatch
    /\ provider_connstr = NoLocation
    /\ work_state = 1
    /\ ev_list = NoEvents
    /\ adm = NoAdmin
    /\ cyc = NoCycle
    /\ held = NULL
    /\ acked = {}
    /\ done_hist = {1}
    /\ fn = NoFn
    /\ bw = NoWalkerRun
    /\ reg = NoReg
    /\ provider_db = NoLocation
    /\ \E types \in [1 .. MaxTick - 1 -> CascadeEvTypes] :
         evq = [NoQueue EXCEPT
                  !.table = [i \in 1 .. MaxTick - 1 |->
                               [ev_id |-> i + 1, ev_type |-> types[i]]]]

NextDefault ==
    \/ Tick
    \/ cascade_work
    \/ fetch_state
    \/ tag_refreshed
    \/ clear_error
    \/ pause_check
    \/ update_conn
    \/ cascade_dispatch
    \/ load_next_batch
    \/ acquire_commit
    \/ load_batch_events
    \/ process_batch
    \/ default_remote_batch
    \/ finish_remote_batch
    \/ finish_batch
    \/ finish_commit
    \/ Raise
    \/ Crash
    \/ exception_hook

SpecDefault == InitDefault /\ [][NextDefault]_vars

\* ---- LocalConsumer: the position is tracked in a local file

\* the tracking file holds dst.completed_tick; load_local_tick() answers -1
\* (NULL here) when there is no file or the file is empty

\* mutant: set_batch_done writes nothing
save_local_tick_lost(row, tick_id) == row

\* save_local_tick(tick_id): the file is replaced atomically
save_local_tick(row, tick_id) == [row EXCEPT !.completed_tick = tick_id]

\* mutant: a queue ahead of the local tick is left where it is
check_queue_branch_norewind(queue_tick, local_tick) ==
    IF queue_tick < 0
    THEN IF local_tick >= 0 THEN "register_at" ELSE "register_top"
    ELSE IF local_tick < 0 THEN "save"
    ELSE IF local_tick > queue_tick THEN "reposition"
    ELSE "match"

\* check_queue: the branch taken for the queue's tick (-1: no subscription)
\* and the local tick
check_queue_branch(queue_tick, local_tick) ==
    IF queue_tick < 0
    THEN IF local_tick >= 0 THEN "register_at" ELSE "register_top"
    ELSE IF local_tick < 0 THEN "save"
    ELSE IF local_tick > queue_tick THEN "reposition"
    ELSE IF local_tick < queue_tick THEN "rewind"
    ELSE "match"

\* check_queue(), called by startup (work_state is not negative) and by
\* work() after a failed cycle.  The register statements are executed after
\* the function's commit and stay in the open transaction (unless
\* autocommit); pgq.register_consumer_at fails for a tick the queue has not
\* got.
check_queue ==
    /\ pc = "check_queue"
    /\ LET local_tick == dst.completed_tick
           queue_tick == src_tx.last_tick
           branch == check_queue_branch(queue_tick, local_tick)
           at_tick == branch \in {"register_at", "reposition", "rewind"}
           no_tick == at_tick /\ local_tick \notin 1 .. top_tick
       IN /\ src_tx' = IF no_tick THEN src_tx
                       ELSE IF at_tick THEN row_after_register_at(src_tx, local_tick)
                       ELSE IF branch = "register_top" THEN row_after_register(src_tx)
                       ELSE src_tx
          /\ src' = IF Autocommit THEN src_tx' ELSE src
          /\ dst' = IF branch = "save" THEN save_local_tick(dst, queue_tick) ELSE dst
          /\ pc' = IF no_tick THEN (IF work_state < 0 THEN "exception" ELSE "failed")
                   ELSE IF work_state < 0 THEN "next_batch" ELSE "idle"
          /\ cyc' = [NoCycle EXCEPT !.calls = {branch}]
    /\ UNCHANGED <<top_tick, batch_seq, applied, dst_pending, conf, state, batch_id,
                   batch_info, provider_connstr, work_state, ev_list, adm, held,
                   acked, done_hist, fnVars>>

\* LocalConsumer.work: if self.work_state < 0: self.check_queue();
\* return super().work()
local_work ==
    /\ pc = "idle"
    /\ pc' = IF work_state < 0 THEN "check_queue" ELSE "next_batch"
    /\ cyc' = NoCycle
    /\ UNCHANGED <<srcVars, dstVars, conf, state, batch_id, batch_info,
                   provider_connstr, work_state, ev_list, adm, held, acked,
                   done_hist, fnVars>>

\* LocalConsumer.process_batch: if self.is_batch_done(): return
local_process_batch ==
    /\ pc = "process"
    /\ conf.klass = "LocalConsumer"
    /\ LET r == local_is_batch_done(batch_info.prev_tick_id, batch_info.tick_id,
                                    dst.completed_tick)
       IN /\ pc' = IF r = "False" THEN "local_batch"
                   ELSE IF r = "True" THEN after_process
                   ELSE "exception"
          /\ cyc' = [cyc EXCEPT !.skipped = (r = "True"),
                                !.lost = (r = "raise_lost")]
    /\ UNCHANGED <<srcVars, dstVars, conf, state, batch_id, batch_info,
                   provider_connstr, work_state, ev_list, adm, held, acked,
                   done_hist, fnVars>>

\* process_local_batch (overridden by the application): the batch is
\* processed; what it does is outside any database transaction
process_local_batch ==
    /\ pc = "local_batch"
    /\ Len(applied) < 2 * MaxTick
    /\ applied' = Append(applied, batch_info.tick_id)
    /\ cyc' = [cyc EXCEPT !.callbacks = @ + 1]
    /\ pc' = "set_done"
    /\ UNCHANGED <<srcVars, dst, dst_pending, conf, state, batch_id, batch_info,
                   provider_connstr, work_state, ev_list, adm, held, acked,
                   done_hist, fnVars>>

\* set_batch_done: save_local_tick(self.batch_info['tick_id']); process_batch
\* returns
set_batch_done ==
    /\ pc = "set_done"
    /\ dst' = save_local_tick(dst, batch_info.tick_id)
    /\ done_hist' = done_hist \cup {dst'.completed_tick}
    /\ cyc' = [cyc EXCEPT !.completed = @ + 1]
    /\ pc' = after_process
    /\ UNCHANGED <<srcVars, applied, dst_pending, conf, state, batch_id, batch_info,
                   provider_connstr, work_state, ev_list, adm, held, acked, fnVars>>

\* the process dies (or has ended) and is started again: the open
\* transaction is rolled back, the file stays, startup runs check_queue
local_restart ==
    /\ pc # "check_queue" \/ work_state < 0
    /\ src_tx' = src
    /\ pc' = "check_queue"
    /\ batch_id' = NULL
    /\ batch_info' = NoBatch
    /\ work_state' = 1
    /\ ev_list' = NoEvents
    /\ held' = NULL
    /\ cyc' = NoCycle
    /\ UNCHANGED <<top_tick, batch_seq, src, dstVars, conf, state, provider_connstr,
                   adm, acked, done_hist, fnVars>>

\* the script starts (startup is about to run check_queue) on a queue with
\* two ticks: no subscription, a subscription at tick 1 or 2, or one with
\* an unfinished batch; no tracking file, or one that holds a tick
InitLocal ==
    /\ top_tick = 2
    /\ batch_seq = 1
    /\ src \in {NoSub, SubRow(1), SubRow(2),
                [SubRow(1) EXCEPT !.batch = 1, !.next_tick = 2]}
    /\ src_tx = src
    /\ \E lt \in {NULL, 1, 2, 3} : dst = [NoState EXCEPT !.completed_tick = lt]
    /\ applied = <<>>
    /\ dst_pending = <<>>
    /\ \E ac \in {0, 1} :
         conf = [klass |-> "LocalConsumer", pgq_lazy_fetch |-> IF ac = 0 THEN 2 ELSE 0,
                 pgq_autocommit |-> ac, subconsumer_timeout |-> "",
                 consumer_filter |-> NoFilter]
    /\ pc = "check_queue"
    /\ state = NoState
    /\ batch_id = NULL
    /\ batch_info = NoBatch
    /\ provider_connstr = NoLocation
    /\ work_state = 1
    /\ ev_list = NoEvents
    /\ adm = NoAdmin
    /\ cyc = NoCycle
    /\ held = NULL
    /\ acked = {}
    /\ done_hist = {}
    /\ fn = NoFn
    /\ bw = NoWalkerRun
    /\ reg = NoReg
    /\ provider_db = NoLocation
    /\ evq = NoQueue

NextLocal ==
    \/ Tick
    \/ check_queue
    \/ local_work
    \/ load_next_batch
    \/ acquire_commit
    \/ load_batch_events
    \/ local_process_batch
    \/ process_local_batch
    \/ set_batch_done
    \/ finish_batch
    \/ finish_commit
    \/ Raise
    \/ exception_hook
    \/ local_restart

SpecLocal == InitLocal /\ [][NextLocal]_vars

\* ---- a subconsumer beside a sibling that holds an unfinished batch

\* subconsumer_timeout as configured: not set, or an interval
Timeouts == {"", "1 hour"}

CoopConfigs ==
    {c \in [klass : {"CoopConsumer"}, pgq_lazy_fetch : {0, 2},
            pgq_autocommit : {0, 1}, subconsumer_timeout : Timeouts,
            consumer_filter : {NoFilter}] :
        ~usage_error(c.pgq_autocommit, c.pgq_lazy_fetch)}

\* the sibling's batch: the first batch of the queue, ticks (1, 2]
SiblingBatch == [batch_id |-> 1, prev_tick_id |-> 1, tick_id |-> 2]

\* the subconsumer is registered; the shared position is at tick 2, behind
\* the batch the sibling was given and has not finished
InitCoop ==
    /\ top_tick = 2
    /\ batch_seq = 1
    /\ src = [SubRow(2) EXCEPT !.sibling = SiblingBatch]
    /\ src_tx = src
    /\ dst = NoState
    /\ applied = <<>>
    /\ dst_pending = <<>>
    /\ conf \in CoopConfigs
    /\ pc = "idle"
    /\ state = NoState
    /\ batch_id = NULL
    /\ batch_info = NoBatch
    /\ provider_connstr = NoLocation
    /\ work_state = 1
    /\ ev_list = NoEvents
    /\ adm = NoAdmin
    /\ cyc = NoCycle
    /\ held = NULL
    /\ acked = {}
    /\ done_hist = {}
    /\ fn = NoFn
    /\ bw = NoWalkerRun
    /\ reg = NoReg
    /\ provider_db = NoLocation
    /\ evq = NoQueue

NextCoop ==
    \/ Tick
    \/ consumer_work
    \/ load_next_batch
    \/ acquire_commit
    \/ load_batch_events
    \/ cb_next
    \/ cb_tag
    \/ cb_raise
    \/ cb_return
    \/ flush_retry
    \/ flush_done
    \/ finish_batch
    \/ finish_commit
    \/ Raise
    \/ Crash
    \/ exception_hook

SpecCoop == InitCoop /\ [][NextCoop]_vars

\* ---- the producer helpers on one queue

\* rows the event table holds at most
MaxTable == 5
\* rows handed to one bulk_insert_events call (0..MaxRows)
MaxRows == 3

EvTypes == {"mytype", "other"}

\* field names callers give: the short and the ev_ names of _fldmap, and a
\* name it does not know
FieldLists == {<<"type", "data">>, <<"ev_type", "ev_data", "ev_time">>,
               <<"type", "payload">>}

\* _fldmap[name], or KeyError
fldmap(name) ==
    IF name \in {"id", "time", "type", "data", "extra1", "extra2", "extra3",
                 "extra4"}
    THEN "ev_" \o name
    ELSE IF name \in {"ev_id", "ev_time", "ev_type", "ev_data", "ev_extra1",
                      "ev_extra2", "ev_extra3", "ev_extra4"}
    THEN name
    ELSE "KeyError"

\* sequences of event types of length 0..n
RECURSIVE TypeRows(_)
TypeRows(n) ==
    IF n = 0 THEN {<<>>}
    ELSE LET shorter == TypeRows(n - 1)
         IN shorter \cup {Append(r, t) : r \in {s \in shorter : Len(s) = n - 1},
                                         t \in EvTypes}

\* mutant: of the rows handed over only the first is inserted
insert_rows_first_only(table, seq, types) ==
    IF types = <<>> THEN table
    ELSE Append(table, [ev_id |-> seq + 1, ev_type |-> types[1]])

\* the event table after the rows are inserted (pgq.insert_event, or the
\* copy of skytools.magic_insert): ev_id comes from the queue's sequence
insert_rows(table, seq, types) ==
    table \o [i \in 1 .. Len(types) |-> [ev_id |-> seq + i, ev_type |-> types[i]]]

\* insert_event(curs, queue, ev_type, ev_data): select pgq.insert_event(...);
\* return curs.fetchone()[0]
insert_event ==
    /\ Len(evq.table) < MaxTable
    /\ \E t \in EvTypes :
         evq' = [table |-> insert_rows(evq.table, evq.ev_seq, <<t>>),
                 ev_seq |-> evq.ev_seq + 1,
                 calls |-> (evq.calls + 1) % 2,
                 last |-> <<[op |-> "insert_event", types |-> <<t>>,
                             raised |-> FALSE, ret |-> evq.ev_seq + 1]>>]
    /\ UNCHANGED <<srcVars, dstVars, procVars, adm, obsVars, fn, bw, reg, provider_db>>

\* bulk_insert_events(curs, rows, fields, queue): the table name is asked
\* for, the field names are mapped (KeyError for an unknown one), the rows
\* are copied in; returns None
bulk_insert_events ==
    /\ \E types \in TypeRows(MaxRows), fields \in FieldLists :
         /\ Len(evq.table) + Len(types) <= MaxTable
         /\ LET raised == \E i \in DOMAIN fields : fldmap(fields[i]) = "KeyError"
            IN evq' = [table |-> IF raised THEN evq.table
                                 ELSE insert_rows(evq.table, evq.ev_seq, types),
                       ev_seq |-> IF raised THEN evq.ev_seq
                                  ELSE evq.ev_seq + Len(types),
                       calls |-> (evq.calls + 1) % 2,
                       last |-> <<[op |-> "bulk_insert_events", types |-> types,
                                   raised |-> raised, ret |-> NULL]>>]
    /\ UNCHANGED <<srcVars, dstVars, procVars, adm, obsVars, fn, bw, reg, provider_db>>

\* another producer inserts an event on the same queue
other_insert ==
    /\ Len(evq.table) < MaxTable
    /\ \E t \in EvTypes :
         evq' = [evq EXCEPT !.table = insert_rows(evq.table, evq.ev_seq, <<t>>),
                            !.ev_seq = @ + 1]
    /\ UNCHANGED <<srcVars, dstVars, procVars, adm, obsVars, fn, bw, reg, provider_db>>

InitProducer ==
    /\ InitCommon
    /\ dst = NoState
    /\ conf = CascadeConf
    /\ fn = NoFn

NextProducer ==
    \/ insert_event
    \/ bulk_insert_events
    \/ other_insert

SpecProducer == InitProducer /\ [][NextProducer]_vars

\* ------------------------------------------------------------- properties
Range(s) == {s[i] : i \in DOMAIN s}

\* the ticks of a sequence grow strictly: none twice, all in chain order
Increasing(s) == \A i, j \in DOMAIN s : i < j => s[i] < s[j]

\* C1: a cascaded consumer running alone, with crashes and exceptions after
\* any step: completed_tick only ever moves from prev_tick to cur_tick of the
\* batch that was just processed, in one commit with that batch's writes, and
\* the ticks applied on the target follow the tick chain, none applied twice.
C1_ExactlyOncePerTick ==
    /\ [](Increasing(applied) /\ (applied # <<>> => applied[Len(applied)] = dst.completed_tick))
    /\ [][dst'.completed_tick # dst.completed_tick =>
            /\ dst.completed_tick = batch_info.prev_tick_id
            /\ dst'.completed_tick = batch_info.tick_id
            /\ src.batch = batch_info.batch_id
            /\ src.last_tick = batch_info.prev_tick_id
            /\ src.next_tick = batch_info.tick_id
            /\ applied' = Append(applied, batch_info.tick_id)]_vars

\* C1 witness: a batch was committed on the target, the process crashed
\* before the acknowledgment, the batch was delivered again and skipped, and
\* a following batch was applied
C1_Witness ==
    /\ Len(applied) = 2
    /\ cyc.completed = 1
    /\ batch_seq >= 2
    /\ pc = "fin_commit"

\* C3: finish_batch is issued on the source only when completed_tick = cur_tick
\* is committed on the target (with the batch's writes when it was processed);
\* every acknowledged batch's cur_tick was recorded on the target.
C3_TargetBeforeSource ==
    /\ pc = "fin_commit" =>
         /\ dst.completed_tick = batch_info.tick_id
         /\ dst_pending = <<>>
    /\ (pc = "fin_commit" /\ cyc.callbacks > 0) =>
         /\ cyc.completed > 0
         /\ batch_info.tick_id \in Range(applied)
    /\ acked \subseteq done_hist
    /\ (src.last_tick # 1 => src.last_tick \in acked)
    /\ (src_tx.last_tick # src.last_tick => dst.completed_tick = src_tx.last_tick)

\* C3 witness: a processed batch is acknowledged and committed on the source
C3_Witness ==
    /\ src.last_tick \in acked
    /\ src.last_tick \in Range(applied)
    /\ dst.completed_tick = src.last_tick
    /\ pc = "idle"

\* the fetched completed_tick is neither end of the acquired batch
LostPosition ==
    /\ state.completed_tick # batch_info.prev_tick_id
    /\ state.completed_tick # batch_info.tick_id

\* C5: a candidate batch whose fetched completed_tick is neither its prev_tick
\* nor its cur_tick makes the reconciliation check raise: the cycle ends in
\* the exception path with no callback, no set_consumer_completed and no
\* finish_batch, the target and the source position left as they were.
C5_LostPositionAborts ==
    /\ []((conf.klass = "CascadedConsumer" /\ pc = "process" /\ LostPosition) =>
            /\ cyc.callbacks = 0 /\ cyc.completed = 0 /\ cyc.finished = 0)
    /\ [](cyc.lost => /\ pc = "exception"
                      /\ cyc.callbacks = 0
                      /\ cyc.completed = 0
                      /\ cyc.finished = 0)
    /\ [][(conf.klass = "CascadedConsumer" /\ pc = "process" /\ LostPosition
           /\ pc' # "process" /\ adm' = adm) =>
            /\ pc' \in {"exception", "idle"}
            /\ (pc' = "exception" => cyc'.lost \/ cyc' = cyc)
            /\ dst' = dst
            /\ applied' = applied
            /\ dst_pending' = dst_pending
            /\ src' = src
            /\ src_tx' = src_tx]_vars

\* C5 witness: the check has raised on a batch that lies beyond the
\* target's completed tick
C5_Witness ==
    /\ cyc.lost
    /\ pc = "exception"
    /\ LostPosition
    /\ state.completed_tick # NULL
    /\ state.completed_tick < batch_info.prev_tick_id

\* C6: a batch whose cur_tick is the fetched completed_tick is skipped: the
\* callback is not invoked, set_consumer_completed is not called and nothing
\* of the target's position or applied writes changes in that cycle.
C6_ReplaySkips ==
    /\ [](cyc.skipped => /\ cyc.callbacks = 0
                         /\ cyc.completed = 0
                         /\ dst_pending = <<>>
                         /\ (pc \in {"finish", "fin_commit"} =>
                               dst.completed_tick = batch_info.tick_id))
    /\ []((pc = "process" /\ state.completed_tick = batch_info.tick_id) =>
            is_batch_done(batch_info.prev_tick_id, batch_info.tick_id,
                          state.completed_tick) = "True")
    /\ [][(pc = "process" /\ state.completed_tick = batch_info.tick_id) =>
            /\ pc' \in {"process", "finish", "exception", "idle"}
            /\ (pc' = "finish" => cyc'.skipped)
            /\ applied' = applied
            /\ dst_pending' = dst_pending
            /\ dst'.completed_tick = dst.completed_tick]_vars

\* C6 witness: a replayed batch was skipped and is about to be acknowledged
C6_Witness ==
    /\ cyc.skipped
    /\ pc = "finish"
    /\ batch_info.tick_id \in Range(applied)

\* C7 as stated: no acquire is issued while the registry's paused flag is set
C7_NoAcquireWhilePaused ==
    [][(pc = "next_batch" /\ pc' = "acq_commit") => ~dst.paused]_vars

\* C7 amended: an acquire is issued only after a state fetch of the same
\* work() call returned paused=false; while the fetched state has paused=true
\* the loop polls and the cycle acquires nothing, calls no callback, advances
\* no completed tick and acknowledges nothing.
C7_AcquireAfterUnpausedFetch ==
    /\ cyc.acquires > 0 => cyc.unpaused
    /\ pc \in {"update_conn", "dispatch", "next_batch", "acq_commit", "load_events",
               "process", "remote_batch", "finish_remote", "finish", "fin_commit"}
         => (~state.paused /\ cyc.unpaused)
    /\ (pc \in {"tag_refreshed", "clear_error", "pause_check"} /\ state.paused) =>
         /\ cyc.acquires = 0
         /\ cyc.callbacks = 0
         /\ cyc.completed = 0
         /\ cyc.finished = 0

\* C7 witness: the first acquire after a pause that this work() call waited out
C7_Witness ==
    /\ cyc.waited
    /\ cyc.acquires = 1
    /\ pc = "acq_commit"
    /\ batch_id # NULL

\* C4: with a completed tick present, is_batch_done is the three-way
\* comparison: new when prev_tick = completed_tick, else skip when
\* cur_tick = completed_tick, else the lost-position error.
C4_ThreeWayComparison ==
    (fn.out # "none" /\ fn.dst # NULL /\ fn.dst # 0) =>
        /\ (fn.prev = fn.dst => fn.out = "False")
        /\ (fn.prev # fn.dst /\ fn.cur = fn.dst => fn.out = "True")
        /\ (fn.prev # fn.dst /\ fn.cur # fn.dst => fn.out = "raise_lost")

\* positions of work() between the committed acquire and the acknowledgment
Holding == {"load_events", "process", "flush", "finish"}

\* the process is at the statement that commits finish_batch
AtFinishCommit == pc = "fin_commit" \/ (pc = "finish" /\ Autocommit)

\* the step leaves the active batch of the committed subscription as it is
BatchKept == src' = [src EXCEPT !.retry = src'.retry]

\* C2 as stated: at every point after the acquire has returned a batch and
\* before its finish_batch is committed, the batch is the active batch of
\* the committed subscription -- what a process started after a stop at
\* that point is given by its acquire.
C2_StopAnywhereAfterAcquire ==
    (pc \in Holding \cup {"acq_commit"} /\ batch_id # NULL) => src.batch = batch_id

\* C2, amended: once the acquire of a batch is committed, the batch stays the
\* active, unacknowledged batch of the subscription, with its tick range (and
\* so its events) unchanged, through every step -- a crash or an exception
\* included -- until a step commits finish_batch for it; an acquire issued
\* while a batch is active returns that batch id with the same rows; an
\* acquire issued with no batch active (the assignment was rolled back)
\* starts at the unmoved position; the position only moves to the end of the
\* batch that was acknowledged.
C2_AtLeastOnce ==
    /\ [](/\ pc \in Holding => src.batch = batch_id /\ batch_id # NULL
          /\ (pc = "fin_commit" /\ ~Autocommit) => src.batch = batch_id
          /\ pc = "idle" => src_tx = src
          /\ (pc = "process" /\ ev_list.mode = "list")
                => ev_list.ids = engine_batch_rows(src))
    /\ [][/\ (src.batch # NULL /\ ~BatchKept)
                => /\ AtFinishCommit
                   /\ src.batch = batch_id
                   /\ src'.last_tick = src.next_tick
                   /\ src'.batch = NULL
          /\ (src.batch = NULL) => src'.last_tick = src.last_tick
          /\ (pc = "next_batch" /\ pc' = "acq_commit" /\ src.batch # NULL)
                => /\ batch_id' = src.batch
                   /\ engine_batch_rows(src_tx') = engine_batch_rows(src)
          /\ (pc = "next_batch" /\ pc' = "acq_commit" /\ src.batch = NULL
                /\ batch_id' # NULL)
                => /\ src_tx'.batch = batch_id'
                   /\ src_tx'.last_tick = src.last_tick
                   /\ batch_id' = batch_seq']_vars

\* a batch is delivered again: the acquire returns the batch the committed
\* subscription already had active
C2_Witness ==
    /\ pc = "acq_commit"
    /\ ~Autocommit
    /\ batch_id # NULL
    /\ src.batch = batch_id
    /\ Len(engine_batch_rows(src)) >= 2

\* C8: work() issues one acquire per call, and only when the process holds
\* no batch: whatever it held before was released by a committed
\* finish_batch or by an exception; while a batch is loaded, processed or
\* waits for its acknowledgment it is the only active batch of the
\* subscription the process sees.
C8_OneBatchOpen ==
    /\ pc \in {"idle", "next_batch"}
          => held = NULL /\ batch_id = NULL /\ ev_list = NoEvents
    /\ pc = "idle" => work_state \in {-1, 0, 1}
    /\ cyc.acquires <= 1
    /\ pc \in Holding \cup {"fin_commit"}
          => /\ cyc.acquires = 1
             /\ held = batch_id
             /\ batch_id # NULL
             /\ src_tx.batch \in {NULL, batch_id}
    /\ pc \in Holding => src_tx.batch = batch_id

\* a second batch is held after the first was acknowledged
C8_Witness ==
    /\ pc = "process"
    /\ acked # {}
    /\ held = batch_id
    /\ batch_id >= 2

\* C9: when the callback has raised, work() is left by the exception: in
\* that cycle no event_retry was registered and finish_batch was not issued,
\* the batch is still the active batch of the subscription after the
\* exception was handled, and the next acquire returns it.
C9_CallbackRaises ==
    /\ [](cyc.cb_raised
            => /\ pc = "exception"
               /\ cyc.retries = 0
               /\ cyc.finished = 0
               /\ src.batch = batch_id
               /\ batch_id # NULL)
    /\ [][/\ (cyc.cb_raised /\ pc' # pc)
              => /\ pc' = "idle"
                 /\ work_state' \in {-1, 1}
                 /\ src' = src
                 /\ src_tx' = src
          /\ (pc = "next_batch" /\ pc' = "acq_commit" /\ src_tx.batch # NULL)
              => batch_id' = src_tx.batch]_vars

\* the callback has raised after it tagged an event for retry
C9_Witness ==
    /\ cyc.cb_raised
    /\ pc = "exception"
    /\ \/ \E e \in DOMAIN ev_list.status_map : ev_list.status_map[e][1] = EV_RETRY
       \/ \E e \in ev_list.yielded : ev_list.status[e].st = EV_RETRY

\* the retries _flush_retry has to register for the batch
PendingRetries ==
    IF FlushWalker
    THEN {<<batch_id, e, ev_list.status_map[e][2]>> :
            e \in {x \in DOMAIN ev_list.status_map :
                     ev_list.status_map[x][1] = EV_RETRY}}
    ELSE {<<batch_id, e, ev_list.status[e].retry_time>> :
            e \in {x \in DOMAIN ev_list.status : ev_list.status[x].st = EV_RETRY}}

\* C10: Consumer / CoopConsumer issue finish_batch only when _flush_retry
\* has visited every event and registered every pending retry of the batch,
\* once each; when _flush_retry has raised for an unresolved event,
\* finish_batch was not issued in that cycle and the batch is still the
\* active batch of the subscription, its position unmoved.
C10_FlushBeforeFinish ==
    /\ (HasRetry /\ pc \in {"finish", "fin_commit"})
          => /\ flush_items = {}
             /\ PendingRetries \subseteq src_tx.retry
             /\ cyc.retries = Cardinality(PendingRetries)
             /\ ~cyc.flush_raised
    /\ (HasRetry /\ pc = "flush") => cyc.finished = 0
    /\ cyc.flush_raised
          => /\ pc = "exception"
             /\ cyc.finished = 0
             /\ src.batch = batch_id
             /\ src_tx.batch = batch_id
             /\ src.last_tick = batch_info.prev_tick_id \/ conf.klass = "CoopConsumer"

\* _flush_retry has raised for an unresolved event after it registered a
\* retry of the same batch
C10_Witness ==
    /\ cyc.flush_raised
    /\ cyc.retries >= 1

\* the events of the batch the callback was given in full
BatchEvents ==
    IF ev_list.mode = "list" \/ ev_list.fetch_status = 2
    THEN {ev_list.ids[i] : i \in DOMAIN ev_list.ids} ELSE {}

\* every event of the batch but one was tagged Done, and that one was never
\* touched: no tag_done, no tag_retry, no write of its status
OneLeftUntagged ==
    \E u \in BatchEvents :
        /\ u \notin DOMAIN ev_list.last_tag
        /\ u \notin ev_list.written
        /\ BatchEvents # {u}
        /\ \A e \in BatchEvents \ {u} :
              /\ e \in DOMAIN ev_list.last_tag
              /\ ev_list.last_tag[e][1] = "done"
              /\ e \notin ev_list.written

\* C11 as stated: with every event tagged Done but one that was never tagged,
\* the retry flush does not complete (it raises), lazy or eager.
C11_UntaggedRaises ==
    ~(HasRetry /\ pc = "finish" /\ OneLeftUntagged)

\* C11, amended: an event that was never tagged counts as Done: the flush
\* passes over it and completes. The flush raises only in the eager list,
\* and only for an event whose status was written to something that is
\* neither Done nor Retry; with the lazy walker it never raises.
C11_FlushRaisesOnlyOnWrittenStatus ==
    /\ cyc.flush_raised
          => /\ ev_list.mode = "list"
             /\ \E e \in ev_list.written : ev_list.status[e].st = EV_UNTAGGED
    /\ (HasRetry /\ pc = "flush")
          => \A it \in flush_items :
                (it.id \notin DOMAIN ev_list.last_tag /\ it.id \notin ev_list.written)
                    => it.st = EV_DONE
    /\ (HasRetry /\ pc = "flush" /\ ev_list.mode = "walker")
          => \A e \in ev_list.yielded :
                e \notin DOMAIN ev_list.last_tag => walker_get_status(ev_list, e) = EV_DONE

\* the flush has completed for a batch with one event never tagged
C11_Witness ==
    /\ HasRetry
    /\ pc = "finish"
    /\ OneLeftUntagged
    /\ ~cyc.flush_raised

\* the event_retry calls owed at flush: one per event whose last tag was
\* tag_retry, with the delay of that tag
RetryFinal ==
    {<<e, ev_list.last_tag[e][2]>> :
        e \in {x \in DOMAIN ev_list.last_tag : ev_list.last_tag[x][1] = "retry"}}

\* C12: when the flush has completed, event_retry(batch_id, id, delay) was
\* issued in this cycle exactly once for each event whose last tag was
\* tag_retry, with that tag's delay, and is registered with the engine; no
\* call was made, at any point of the flush, for an event tagged Done or
\* never tagged; lazy walker and eager list alike.
C12_RetryCallsExact ==
    /\ HasRetry => cyc.calls \subseteq RetryFinal
    /\ cyc.retries = Cardinality(cyc.calls)
    /\ (HasRetry /\ pc \in {"finish", "fin_commit"})
          => /\ cyc.calls = RetryFinal
             /\ \A c \in cyc.calls : <<batch_id, c[1], c[2]>> \in src_tx.retry
    /\ pc \in {"idle", "next_batch", "acq_commit", "load_events", "process"}
          => cyc.calls = {}

\* the flush has completed for a batch with one event tagged Retry(30) and
\* another tagged Done: one call, with delay 30
C12_Witness ==
    /\ HasRetry
    /\ pc = "finish"
    /\ \E e \in DOMAIN ev_list.last_tag :
          /\ cyc.calls = {<<e, 30>>}
          /\ ev_list.last_tag[e] = <<"retry", 30>>
    /\ \E d \in DOMAIN ev_list.last_tag : ev_list.last_tag[d][1] = "done"

\* ids whose last tag call was tag_retry
LastRetry ==
    {x \in DOMAIN ev_list.last_tag : ev_list.last_tag[x][1] = "retry"}

\* C13: on a RetriableBatchWalker, after any sequence of tag_retry / tag_done
\* calls, an event's status is Retry iff the last tag call on its id was
\* tag_retry and Done otherwise (never tagged included); the status map holds
\* exactly the ids with status Retry, each with the delay of its last
\* tag_retry; tag_done leaves no record of the id and doing it twice is the
\* same as doing it once.
C13_WalkerStatus ==
    ev_list.mode = "walker" =>
        /\ DOMAIN ev_list.status_map = LastRetry
        /\ \A e \in LastRetry :
              ev_list.status_map[e] = <<EV_RETRY, ev_list.last_tag[e][2]>>
        /\ \A e \in ev_list.yielded :
              /\ walker_get_status(ev_list, e) =
                    (IF e \in LastRetry THEN EV_RETRY ELSE EV_DONE)
              /\ e \notin DOMAIN walker_tag(ev_list, e, <<"done", 0>>).status_map
              /\ walker_tag(walker_tag(ev_list, e, <<"done", 0>>), e, <<"done", 0>>)
                    = walker_tag(ev_list, e, <<"done", 0>>)

\* the callback has tagged one event of the walker Retry(30) and another
\* Done, which left no record
C13_Witness ==
    /\ ev_list.mode = "walker"
    /\ pc = "process"
    /\ \E r, d \in ev_list.yielded :
          /\ r \in LastRetry /\ ev_list.status_map[r] = <<EV_RETRY, 30>>
          /\ d \in DOMAIN ev_list.last_tag /\ ev_list.last_tag[d][1] = "done"
          /\ d \notin DOMAIN ev_list.status_map

\* C14: a second for statement over a walker, started while the first
\* iteration is in progress or after it has finished, raises the double-fetch
\* error: it yields no event and sends no cursor command (the walker, its
\* output and its cursor counters are as before).
C14_DoubleIteration ==
    /\ [](bw.loops >= 1
            => /\ ev_list.fetch_status \in {1, 2}
               /\ bw.errors = bw.loops - 1
               /\ ev_list.opens = 1)
    /\ [][(bw.loops >= 1 /\ bw'.loops = bw.loops + 1)
            => /\ bw'.errors = bw.errors + 1
               /\ ev_list' = ev_list]_vars

\* a second iteration was refused while the first was part-way through
C14_Witness ==
    /\ bw.errors = 1
    /\ ev_list.fetch_status = 1
    /\ Len(ev_list.out) >= 1
    /\ Len(ev_list.out) < Len(walker_rows)

\* C15: a len(walker) taken before the walker is exhausted gives 0 (or an
\* error), never a count of the rows read so far.
C15_LenBeforeExhaustion ==
    \A l \in bw.lens : l.fetch_status # 2 => l.result = 0

\* C16: on an exhausted walker len() is N, the number of rows behind the
\* cursor and the number of events yielded, and a stat_end placed after the
\* exhaustion receives N.
C16_LenAfterExhaustion ==
    /\ ev_list.fetch_status = 2
          => /\ walker_len(ev_list) = Len(walker_rows)
             /\ walker_len(ev_list) = Len(ev_list.out)
    /\ \A l \in bw.lens :
          l.fetch_status = 2 => l.result = Len(walker_rows) /\ l.result = l.yielded
    /\ \A s \in bw.stat : s.fetch_status = 2 => s.result = Len(walker_rows)

\* len() and stat_end after a walk over five events in pages of two
C16_Witness ==
    /\ ev_list.fetch_status = 2
    /\ ev_list.fetch_size = 2
    /\ bw.lens = {[fetch_status |-> 2, yielded |-> 5, result |-> 5]}
    /\ bw.stat = {[fetch_status |-> 2, result |-> 5]}

\* s is the start of t
IsPrefix(s, t) == Len(s) <= Len(t) /\ \A i \in DOMAIN s : s[i] = t[i]

\* C17: the walker yields the events of the eager fetch of the same batch
\* under the same filter, in the same order, each once: what it has yielded
\* is at every point the start of the eager list, and the whole list when it
\* is exhausted, whatever the page size.
C17_PagingEquivalence ==
    /\ ev_list.mode = "walker" => IsPrefix(ev_list.out, eager_list.ids)
    /\ ev_list.fetch_status = 2 => ev_list.out = eager_list.ids
    /\ \A i, j \in DOMAIN ev_list.out : i # j => ev_list.out[i] # ev_list.out[j]
    /\ Cardinality(ev_list.yielded) = Len(ev_list.out)

\* a filtered batch walked to the end over more than one page
C17_Witness ==
    /\ ev_list.fetch_status = 2
    /\ conf.consumer_filter # NoFilter
    /\ ev_list.fetches >= 1
    /\ Len(ev_list.out) >= 3
    /\ Len(ev_list.out) < Len(bw.events)

\* C18: over N rows with page size P the walker opens the cursor once, sends
\* floor(N / P) follow-up fetches and closes the cursor once, after the last
\* event; a page shorter than P is the last one read.
C18_CursorCommands ==
    /\ ev_list.fetch_status = 0
          => ev_list.opens = 0 /\ ev_list.fetches = 0 /\ ev_list.closes = 0
    /\ ev_list.fetch_status = 1
          => /\ ev_list.opens = 1
             /\ ev_list.closes = 0
             /\ ev_list.fetches = (Len(ev_list.out) - 1) \div ev_list.fetch_size
    /\ ev_list.fetch_status = 2
          => /\ ev_list.opens = 1
             /\ ev_list.closes = 1
             /\ ev_list.fetches = Len(walker_rows) \div ev_list.fetch_size
             /\ Len(ev_list.out) = Len(walker_rows)
    /\ (ev_list.mode = "walker" /\ ev_list.fetch_status = 2)
          => (Len(ev_list.page) < ev_list.fetch_size)

\* a walk over five rows in pages of two has ended on the short third page
C18_Witness ==
    /\ ev_list.fetch_status = 2
    /\ ev_list.fetch_size = 2
    /\ Len(walker_rows) = 5
    /\ ev_list.fetches = 2
    /\ Len(ev_list.page) = 1

\* C19: with no batch id from the acquire, work() never goes past the
\* acquire: no event list is loaded, no callback runs, no event_retry and no
\* finish_batch is sent, the position stays, and work() ends with 0 (a
\* result of 1 there is a restarted process); work() ends with 0 only this
\* way; a cycle whose acknowledgment is committed ends with 1.
C19_IdleReturnsZero ==
    /\ []((batch_id = NULL /\ pc \in InWork)
            => /\ pc \in {"next_batch", "acq_commit"}
               /\ ev_list = NoEvents
               /\ cyc.callbacks = 0
               /\ cyc.retries = 0
               /\ cyc.finished = 0)
    /\ [][/\ (pc = "acq_commit" /\ batch_id = NULL /\ pc' # pc)
              => /\ pc' \in {"idle", "exception"}
                 /\ pc' = "idle" => work_state' \in {0, 1}
                 /\ src'.last_tick = src.last_tick
                 /\ src'.batch = NULL
          /\ (work_state' = 0 /\ pc # "idle" /\ pc' = "idle")
              => /\ pc = "acq_commit"
                 /\ batch_id = NULL
                 /\ src' = src_tx
                 /\ cyc.acquires = 1
          /\ (src.batch # NULL /\ src'.batch = NULL /\ ~Autocommit)
              => pc' = "idle" /\ work_state' = 1
          /\ (pc = "fin_commit" /\ pc' = "idle") => work_state' = 1]_vars

\* work() has returned 0 with ticks waiting, after an earlier cycle
\* acknowledged a batch
C19_Witness ==
    /\ pc = "idle"
    /\ work_state = 0
    /\ acked # {}
    /\ top_tick > src.last_tick

\* C20: with node_type root in the refreshed state, work() does not get past
\* the node-type test: no acquire, no event list, no callback, no
\* set_consumer_completed and no finish_batch; the source subscription and
\* the target position stay as registered; work() ends there with 0 (a
\* result of 1 is a restarted process).
C20_RootNoBatchWork ==
    /\ []((state.node_type = "root" /\ pc \in InWork)
            => /\ pc \in {"fetch_state", "tag_refreshed", "clear_error",
                          "pause_check", "update_conn", "dispatch"}
               /\ cyc.acquires = 0
               /\ cyc.callbacks = 0
               /\ cyc.completed = 0
               /\ cyc.finished = 0
               /\ ev_list = NoEvents
               /\ batch_id = NULL)
    /\ [](state.node_type = "root"
            => /\ src = SubRow(1) /\ src_tx = src
               /\ batch_seq = 0
               /\ applied = <<>> /\ dst_pending = <<>>
               /\ dst.completed_tick = 1
               /\ acked = {})
    /\ [][/\ (pc = "dispatch" /\ state.node_type = "root" /\ pc' # pc)
              => /\ pc' \in {"idle", "exception"}
                 /\ pc' = "idle" => work_state' \in {0, 1}
          /\ (state.node_type = "root" /\ work_state' = 0 /\ pc # "idle"
                /\ pc' = "idle")
              => pc = "dispatch"]_vars

\* a root node's work() has returned 0 with ticks waiting on the queue
C20_Witness ==
    /\ pc = "idle"
    /\ work_state = 0
    /\ state.node_type = "root"
    /\ provider_connstr # NoLocation
    /\ top_tick > 1

\* positions in the log of the statements named q
LogIndex(q) == {i \in DOMAIN reg.log : reg.log[i].q = q}

\* C21: CascadedConsumer.register_consumer registers on the source queue
\* first, reads the resulting last_tick, and only then registers on the
\* target registry, with the provider's node name and that tick: a target
\* registration in the log has a source registration before it and carries
\* the provider's (non-empty) node name and the tick the source registration
\* resulted in; when the provider reports no node name nothing is registered
\* anywhere; when no last_tick was found there is no target registration.
C21_RegistrationOrder ==
    /\ \A i \in LogIndex("register_target") :
         /\ \E j \in LogIndex("register_source") :
              /\ j < i
              /\ reg.log[i].tick = reg.log[j].tick
         /\ reg.log[i].node = reg.provider_node
         /\ reg.provider_node # NoNode
         /\ reg.log[i].tick = reg.last_tick
    /\ (Cascaded /\ reg.options.register /\ reg.provider_node = NoNode)
         => reg.log = <<>>
    /\ (reg.last_tick = NULL \/ reg.last_tick = 0)
         => LogIndex("register_target") = {}
    /\ pc = "reg_target" => LogIndex("register_source") # {}

\* a consumer that was not registered is registered on both sides at a tick
\* later than the queue's first
C21_Witness ==
    /\ pc = "exit"
    /\ Len(reg.log) = 2
    /\ reg.log[1].q = "register_source"
    /\ reg.log[2] = Statement("register_target", "n1", 2)
    /\ src = SubRow(2)
    /\ dst.completed_tick = 2

\* C22 as stated: unregister_consumer unregisters from the target registry
\* first and from the source queue second, so a source unregistration of a
\* cascaded consumer has a target unregistration before it.
C22_UnregisterTargetFirst ==
    Cascaded =>
        \A i \in LogIndex("unregister_source") :
            \E j \in LogIndex("unregister_target") : j < i

\* C22: CascadedConsumer.unregister_consumer unregisters from the source
\* (provider) queue first and from the target registry second, the order of
\* registration: a target unregistration has a source unregistration before
\* it, and the target step is only reached with the source step done.
C22_UnregisterSourceFirst ==
    /\ \A i \in LogIndex("unregister_target") :
         \E j \in LogIndex("unregister_source") : j < i
    /\ pc = "unreg_target" => LogIndex("unregister_source") # {}
    /\ (Cascaded /\ LogIndex("unregister_source") # {} /\ pc = "exit")
         => LogIndex("unregister_target") # {}

\* a cascaded consumer has been unregistered on both sides
C22_Witness ==
    /\ Cascaded
    /\ pc = "exit"
    /\ Len(reg.log) = 2
    /\ reg.log[1].q = "unregister_source"
    /\ reg.log[2].q = "unregister_target"
    /\ src = NoSub
    /\ dst = NoState

\* C23: whether the write of the error message into the registry succeeds
\* or fails, exception_hook resets the connections and runs the base
\* handling: every step out of a failed cycle ends it with the open
\* transactions rolled back, nothing of the batch committed on either side,
\* the registry row unchanged or changed in its error field only, and the
\* script in error state (-1), ready for the next cycle (a process restart
\* ends the cycle too, with a new process).
C23_HookAlwaysHandles ==
    [][(pc = "exception" /\ pc' # pc)
         => /\ pc' = "idle"
            /\ src' = src
            /\ src_tx' = src
            /\ applied' = applied
            /\ dst_pending' = <<>>
            /\ dst' \in {dst, [dst EXCEPT !.cur_error = TRUE]}
            /\ batch_id' = NULL
            /\ \/ work_state' = -1 /\ state' = state
               \/ work_state' = 1 /\ state' = NoState]_vars

\* a cycle has failed with a batch's writes pending and the error could not
\* be recorded: the script is in error state all the same
C23_Witness ==
    /\ pc = "idle"
    /\ work_state = -1
    /\ ~dst.cur_error
    /\ state.node_type = "leaf"
    /\ src.batch # NULL
    /\ src_tx = src
    /\ dst_pending = <<>>

\* pgq_lazy_fetch and pgq_autocommit in effect for a configuration file
EffectiveLazyFetch ==
    IF reg.cfg.pgq_lazy_fetch = NULL THEN default_lazy_fetch
    ELSE reg.cfg.pgq_lazy_fetch
EffectiveAutocommit ==
    IF reg.cfg.pgq_autocommit = NULL THEN 0 ELSE reg.cfg.pgq_autocommit

\* C24: construction fails with UsageError exactly when pgq_autocommit and
\* pgq_lazy_fetch are both non-zero in effect (pgq_lazy_fetch being
\* default_lazy_fetch when not configured), and succeeds otherwise; the
\* failure ends the script: no batch has been or will be acquired.
C24_UsageErrorAtConstruction ==
    /\ [](pc # "init"
            => (pc = "usage_error"
                  <=> (EffectiveAutocommit # 0 /\ EffectiveLazyFetch # 0)))
    /\ []((cyc.acquires > 0 \/ held # NULL \/ batch_seq > 0)
            => ~(EffectiveAutocommit # 0 /\ EffectiveLazyFetch # 0))
    /\ [][pc = "usage_error" => pc' = "usage_error"]_vars

\* autocommit is configured, paging is not: the default makes it a UsageError
C24_Witness ==
    /\ pc = "usage_error"
    /\ reg.cfg.pgq_autocommit = 1
    /\ reg.cfg.pgq_lazy_fetch = NULL

\* C25: CoopConsumer passes the takeover timeout to pgq_coop.next_batch
\* exactly when subconsumer_timeout is configured (a batch is taken over
\* only then), and whatever batch the engine returns, new or taken over,
\* goes through the lifecycle of Consumer: the events loaded are those of
\* the returned batch, the callback runs once, the retries are flushed, and
\* pgq_coop.finish_batch is issued only after the flush has completed.
C25_CoopLifecycle ==
    /\ cyc.acquires > 0
          => /\ cyc.next_q.q = "pgq_coop.next_batch"
             /\ cyc.next_q.timeout = conf.subconsumer_timeout
    /\ src_tx.main # NULL => conf.subconsumer_timeout # ""
    /\ pc \in {"process", "flush", "finish"}
          => /\ batch_id # NULL
             /\ src_tx.batch = batch_id
             /\ ev_list.mode \in {"list", "walker"}
             /\ ev_list.mode = "list"
                  => Range(ev_list.ids) = (src_tx.last_tick + 1) .. src_tx.next_tick
             /\ Range(ev_list.out) \subseteq (src_tx.last_tick + 1) .. src_tx.next_tick
    /\ pc \in {"flush", "finish"}
          => /\ cyc.callbacks = 1
             /\ cyc.finished = 0
    /\ pc \in {"finish", "fin_commit"}
          => /\ flush_items = {}
             /\ PendingRetries \subseteq src_tx.retry
             /\ cyc.retries = Cardinality(PendingRetries)
    /\ pc = "fin_commit"
          => /\ cyc.fin_q = "pgq_coop.finish_batch"
             /\ cyc.finished = 1
             /\ src_tx.batch = NULL

\* the sibling's batch was taken over, its event given to the callback and
\* tagged for retry, the retry flushed and the batch finished
C25_Witness ==
    /\ pc = "fin_commit"
    /\ batch_id = SiblingBatch.batch_id
    /\ conf.subconsumer_timeout # ""
    /\ src_tx.sibling = NoBatch
    /\ cyc.retries = 1
    /\ cyc.calls = {<<2, 30>>}
    /\ src_tx.last_tick = 2

\* the rows of the table with event id `id`
RowsWithId(table, id) == {i \in DOMAIN table : table[i].ev_id = id}

\* C26: insert_event adds exactly one event, of the given type, and returns
\* its positive id (the one row with that id); bulk_insert_events given k rows
\* adds exactly k events, of the given types; both leave every event that
\* was in the table before the call in place and unchanged.
C26_ProducerAddsOnly ==
    [][evq'.calls # evq.calls
         => LET call == evq'.last[1]
                old == Len(evq.table)
                added == SubSeq(evq'.table, old + 1, Len(evq'.table))
            IN /\ SubSeq(evq'.table, 1, old) = evq.table
               /\ call.op = "insert_event"
                    => /\ ~call.raised
                       /\ Len(added) = 1
                       /\ call.ret > 0
                       /\ added[1].ev_id = call.ret
                       /\ added[1].ev_type = call.types[1]
                       /\ Cardinality(RowsWithId(evq'.table, call.ret)) = 1
               /\ (call.op = "bulk_insert_events" /\ ~call.raised)
                    => /\ Len(added) = Len(call.types)
                       /\ \A i \in DOMAIN added : added[i].ev_type = call.types[i]
               /\ call.raised => added = <<>>]_vars

\* three rows were inserted in bulk into a table that held events, one of
\* them another producer's
C26_Witness ==
    /\ evq.last # <<>>
    /\ evq.last[1].op = "bulk_insert_events"
    /\ ~evq.last[1].raised
    /\ Len(evq.last[1].types) = 3
    /\ Len(evq.table) = 5
    /\ evq.table[5].ev_id = 5

\* positions of the fetch / sleep loop of refresh_state
PauseLoop == {"fetch_state", "tag_refreshed", "clear_error", "pause_check"}

\* the process was started again: a new object in its first state
Restarted == pc = "idle" /\ work_state = 1 /\ state = NoState

\* C27: the pause wait of refresh_state ends exactly when a fetched state
\* has paused = false: the loop is left for the rest of the cycle only from
\* the pause test of a state fetched unpaused, and that test never goes back
\* to sleep; while the fetched states are paused the only ways out are a
\* failing statement and a restart, so work() does not return.  For a process
\* that keeps running: if paused becomes and stays false, every stay in the
\* loop ends, and the cycle goes on to the acquire (on a root node, to its
\* return) unless it fails.
C27_PauseWaitEnds ==
    /\ [][(pc \in PauseLoop /\ pc' \notin PauseLoop)
            => \/ pc = "pause_check" /\ ~state.paused /\ pc' = "update_conn"
               \/ pc' = "exception"
               \/ Restarted']_vars
    /\ [][(pc = "pause_check" /\ pc' # pc)
            => IF state.paused
               THEN pc' \in {"fetch_state", "exception"} \/ Restarted'
               ELSE pc' \in {"update_conn", "exception"} \/ Restarted']_vars
    /\ (<>[](~dst.paused))
          => [](pc \in PauseLoop
                  => <>(\/ pc = "next_batch"
                        \/ pc = "idle" /\ state.node_type = "root"
                        \/ pc = "exception"
                        \/ Restarted))

\* the cycle waited while paused, saw the pause lifted and reached the acquire
C27_Witness ==
    /\ pc = "next_batch"
    /\ cyc.waited
    /\ cyc.unpaused
    /\ cyc.acquires = 0
    /\ ~dst.paused

\* C28: in refresh_state every fetched state with uptodate = false is
\* followed by one set_consumer_uptodate(true) call, also while the consumer
\* is paused, and a fetched state with uptodate = true by none: the tag step
\* writes uptodate = TRUE on the target exactly when the fetched flag is
\* false, and past the tag step of a fetch the call was made iff the fetched
\* flag was false
C28_TagRefreshed ==
    /\ [](pc \in {"clear_error", "pause_check"} =>
            /\ cyc.tagged \in {"called", "skipped"}
            /\ cyc.tagged = "called" <=> ~state.uptodate)
    /\ [](pc = "tag_refreshed" => cyc.tagged = "none")
    /\ [][pc = "fetch_state" /\ pc' = "tag_refreshed" =>
            state' = dst /\ cyc'.tagged = "none"]_vars
    /\ [][pc = "tag_refreshed" /\ pc' = "clear_error" =>
            IF ~state.uptodate
            THEN dst' = [dst EXCEPT !.uptodate = TRUE] /\ cyc'.tagged = "called"
            ELSE dst' = dst /\ cyc'.tagged = "skipped"]_vars
    /\ [][cyc.tagged # "called" /\ cyc'.tagged = "called" =>
            pc = "tag_refreshed" /\ ~state.uptodate]_vars

\* C28 witness: a fetch made while the consumer is paused found the flag
\* cleared and has signalled up-to-date
C28_Witness ==
    /\ pc = "pause_check"
    /\ state.paused
    /\ ~state.uptodate
    /\ cyc.tagged = "called"
    /\ cyc.waited

\* C29: in refresh_state a fetched state with a recorded error leads to
\* set_consumer_error(NULL) iff work_state is not -1; work_state becomes -1
\* only by the exception hook of a failed cycle and leaves -1 only when a
\* cycle returns without failing (or the process is started again), so the
\* refresh after a failed cycle leaves the recorded error in place and the
\* error is cleared only by a refresh that follows a cycle that did not fail
C29_ErrorCleared ==
    /\ [](pc = "pause_check" =>
            /\ cyc.cleared \in {"called", "skipped"}
            /\ cyc.cleared = "called" <=> (state.cur_error /\ work_state # -1))
    /\ [][pc = "clear_error" /\ pc' = "pause_check" =>
            IF state.cur_error /\ work_state # -1
            THEN dst' = [dst EXCEPT !.cur_error = FALSE]
            ELSE dst' = dst]_vars
    /\ [][work_state = -1 /\ work_state' = -1 /\ dst.cur_error =>
            dst'.cur_error]_vars
    /\ [][dst.cur_error /\ ~dst'.cur_error =>
            pc = "clear_error" /\ work_state # -1 /\ state.cur_error]_vars
    /\ [][work_state # -1 /\ work_state' = -1 => pc = "exception"]_vars
    /\ [][work_state = -1 /\ work_state' # -1 =>
            \/ pc \notin {"idle", "exception"} /\ pc' = "idle"
               /\ work_state' \in {0, 1}
            \/ Restarted']_vars
    /\ [](work_state = -1 /\ pc \in {"fetch_state", "tag_refreshed", "clear_error",
                                    "pause_check"} => cyc.cleared # "called")

\* C29 witness: the refresh after a failed cycle has fetched the recorded
\* error and has left it in place
C29_Witness ==
    /\ pc = "pause_check"
    /\ work_state = -1
    /\ state.cur_error
    /\ dst.cur_error
    /\ cyc.cleared = "skipped"

\* the statements of refresh_state, up to and including "update connection"
InRefresh == {"fetch_state", "tag_refreshed", "clear_error", "pause_check",
              "update_conn"}

\* C30: when the provider_location of the refreshed state differs from the
\* cached provider_connstr, refresh_state closes the provider connection,
\* replaces the cached value and connects to the new location, all before
\* the cycle acquires a batch; when it is the same nothing is closed.  Past
\* refresh_state provider_connstr is the provider_location of the returned
\* state, and a batch is only ever acquired over a connection to it
C30_ProviderFollowsState ==
    /\ [](pc \in InWork \ InRefresh =>
            /\ provider_connstr = state.provider_location
            /\ cyc.closed \subseteq {NoLocation} \cup (Providers \ {provider_connstr}))
    /\ [](pc \in InRefresh \cup {"dispatch"} => cyc.acquires = 0)
    /\ [](pc \in InRefresh => cyc.closed = {})
    /\ [](cyc.acquires > 0 =>
            /\ cyc.acq_from = state.provider_location
            /\ provider_db = state.provider_location)
    /\ [][pc = "update_conn" /\ pc' = "dispatch" =>
            IF provider_connstr # state.provider_location
            THEN /\ cyc'.closed = {provider_db}
                 /\ provider_connstr' = state.provider_location
                 /\ provider_db' = state.provider_location
            ELSE /\ cyc'.closed = {}
                 /\ UNCHANGED <<provider_connstr, provider_db>>]_vars
    /\ [][provider_db' # provider_db =>
            \/ pc = "update_conn" /\ cyc'.closed = {provider_db}
            \/ pc = "dispatch" /\ provider_db = NoLocation
               /\ provider_db' = state.provider_location
            \/ Restarted']_vars

\* C30 witness: the provider was changed under a running consumer; the
\* cycle closed its connection to the old provider and has acquired a batch
\* from the new one
C30_Witness ==
    /\ cyc.closed = {"db1"}
    /\ cyc.acquires > 0
    /\ cyc.acq_from = "db2"
    /\ state.provider_location = "db2"
    /\ batch_id # NULL

\* C31: on a node that is not root and whose refreshed state has no provider
\* location, work() raises at its provider test: the cycle has made no
\* next_batch call, no callback and no acknowledgment, and it ends as a
\* failed cycle (work_state -1), not as an idle one
C31_MissingProviderRaises ==
    /\ [][pc = "dispatch" /\ pc' # "dispatch" /\ state.node_type # "root"
          /\ state.provider_location = NoLocation =>
            \/ pc' = "exception" /\ UNCHANGED <<src, src_tx, dst, applied, acked>>
            \/ Restarted']_vars
    /\ [](state.node_type \notin {"root", "none"}
          /\ state.provider_location = NoLocation =>
            /\ pc \in InRefresh \cup {"idle", "dispatch", "exception"}
            /\ cyc.acquires = 0
            /\ cyc.callbacks = 0
            /\ cyc.finished = 0
            /\ batch_id = NULL)
    /\ [](cyc.no_provider =>
            /\ pc = "exception"
            /\ state.node_type # "root"
            /\ provider_connstr = NoLocation
            /\ cyc.acquires = 0)
    /\ [][cyc.no_provider /\ pc' # pc => work_state' = -1 \/ Restarted']_vars

\* C31 witness: a leaf node without provider location has raised at the
\* provider test of work()
C31_Witness ==
    /\ pc = "exception"
    /\ cyc.no_provider
    /\ state.node_type = "leaf"
    /\ state.provider_location = NoLocation
    /\ cyc.acquires = 0

\* C32: after rewind or dst_reset has run with a tick available the source
\* position and the target's completed_tick are equal, and the batch the
\* consumer acquires next starts at completed_tick and is found new by
\* is_batch_done; with no tick available (no completed_tick for rewind, no
\* subscription for dst_reset) neither position is changed
C32_CommandAlignsPositions ==
    /\ [][adm'.ops = adm.ops + 1 =>
            IF adm'.pc \in {"rewound", "reset"}
            THEN /\ src'.last_tick = dst'.completed_tick
                 /\ src'.last_tick = adm'.tick
                 /\ adm'.pc = "rewound" =>
                      /\ dst' = dst
                      /\ dst.completed_tick \notin {NULL, 0}
                      /\ src'.batch = NULL
                 /\ adm'.pc = "reset" => src' = src /\ src # NoSub
            ELSE /\ src' = src
                 /\ dst' = dst
                 /\ adm'.pc = "no_tick" => dst.completed_tick \in {NULL, 0}
                 /\ adm'.pc = "no_row" => src = NoSub]_vars
    /\ [](adm.pc \in {"rewound", "reset"} /\ dst.completed_tick = adm.tick
          /\ pc \in {"process", "remote_batch", "finish_remote"} =>
            /\ batch_info.prev_tick_id = state.completed_tick
            /\ is_batch_done(batch_info.prev_tick_id, batch_info.tick_id,
                             state.completed_tick) = "False"
            /\ ~cyc.lost)

\* C32 witness: a command has aligned the positions and the consumer is
\* processing the first batch after it, which starts at the aligned position
C32_Witness ==
    /\ adm.pc \in {"rewound", "reset"}
    /\ dst.completed_tick = adm.tick
    /\ pc = "remote_batch"
    /\ batch_info.prev_tick_id = adm.tick
    /\ done_hist \subseteq {adm.tick}

\* C32 second witness state: a command found no tick and changed nothing
C32_NoTick ==
    /\ adm.pc \in {"no_tick", "no_row"}
    /\ adm.ops = 1

\* the events of the queue that process_remote_event does not ignore
UnhandledEvents ==
    {evq.table[i].ev_id : i \in {j \in DOMAIN evq.table :
         LET t == evq.table[j].ev_type
         IN ~(Len(t) >= 4 /\ t[1] = "p" /\ t[2] = "g" /\ t[3] = "q" /\ t[4] = ".")}}

\* the batch (prev, cur] holds an event that is not a cascading one
HasUnhandled(prev, cur) == \E e \in UnhandledEvents : prev < e /\ e <= cur

\* C33: with the default process_remote_event a batch that holds an event
\* whose type does not begin with "pgq." makes the cycle raise: the target's
\* completed_tick does not move, the batch is not acknowledged, the
\* subscription keeps it as its active batch for ever, every later cycle
\* fails on it again and neither side's position ever passes the event; a
\* batch of "pgq." events only leaves the callback without an exception and
\* goes on to completion and acknowledgment
C33_UnhandledEventStops ==
    /\ [][pc = "remote_batch" /\ pc' # pc =>
            IF HasUnhandled(batch_info.prev_tick_id, batch_info.tick_id)
            THEN \/ /\ pc' = "exception"
                    /\ UNCHANGED <<src, dst, applied, acked>>
                 \/ Restarted'
            ELSE \/ pc' = "finish_remote" /\ ~cyc'.cb_raised /\ cyc'.callbacks = 1
                 \/ pc' = "exception" /\ ~cyc'.cb_raised
                 \/ Restarted']_vars
    /\ [](cyc.cb_raised =>
            pc = "exception"
            /\ HasUnhandled(batch_info.prev_tick_id, batch_info.tick_id))
    /\ [](pc \in {"finish_remote", "finish", "fin_commit"} =>
            ~HasUnhandled(batch_info.prev_tick_id, batch_info.tick_id))
    /\ [][src.batch # NULL /\ HasUnhandled(src.last_tick, src.next_tick) =>
            src' = src /\ dst'.completed_tick = dst.completed_tick]_vars
    /\ [](\A e \in UnhandledEvents :
            /\ dst.completed_tick < e
            /\ src.last_tick < e
            /\ \A i \in DOMAIN applied : applied[i] < e)

\* C33 witness: a batch of "pgq." events was acknowledged, the next batch
\* holds another event, and the cycle has failed on it for the second time
C33_Witness ==
    /\ pc = "exception"
    /\ cyc.cb_raised
    /\ work_state = -1
    /\ acked # {}
    /\ dst.completed_tick = 2
    /\ src.batch = batch_id
    /\ batch_info.prev_tick_id = 2

\* the source still holds as active a batch that the target has completed:
\* the process stopped after the target commit, before the acknowledgment
Replayed == src.batch # NULL /\ src.next_tick = dst.completed_tick

\* C34: a batch that process_batch skips as already applied is acknowledged
\* in the same cycle: from the skip work() goes straight to finish_batch and
\* its commit and returns 1, and the subscription then stands at the batch's
\* end.  For a process that keeps running, is not paused for ever and whose
\* statements stop failing, a batch left unacknowledged after its target
\* commit is acknowledged later, so the consumer gets past it
C34_SkippedBatchAcked ==
    /\ [][pc = "process" /\ pc' # pc
          /\ is_batch_done(batch_info.prev_tick_id, batch_info.tick_id,
                           state.completed_tick) = "True" =>
            \/ pc' = "finish" /\ cyc'.skipped
            \/ pc' = "exception"
            \/ Restarted']_vars
    /\ [][cyc.skipped /\ pc = "finish" /\ pc' # pc =>
            \/ pc' = "fin_commit" /\ cyc'.finished = 1 /\ src_tx'.batch = NULL
               /\ src_tx'.last_tick = batch_info.tick_id
            \/ pc' = "exception"
            \/ Restarted']_vars
    /\ [][cyc.skipped /\ pc = "fin_commit" /\ pc' # pc =>
            \/ /\ pc' = "idle"
               /\ work_state' = 1
               /\ src'.batch = NULL
               /\ src'.last_tick = batch_info.tick_id
               /\ batch_info.tick_id \in acked'
            \/ pc' = "exception"
            \/ Restarted']_vars
    /\ [](cyc.skipped => pc \in {"finish", "fin_commit", "exception"})
    /\ (<>[](~dst.paused) /\ <>[][pc' # "exception" /\ ~Restarted']_vars)
          => [](Replayed => <>(src.batch = NULL))

\* C34 witness: the process was started again after the target commit of a
\* batch; the new process got the same batch, skipped it and has issued
\* finish_batch for it
C34_Witness ==
    /\ cyc.skipped
    /\ pc = "fin_commit"
    /\ cyc.finished = 1
    /\ cyc.callbacks = 0
    /\ batch_info.tick_id \in Range(applied)
    /\ src.batch = batch_id
    /\ src_tx.batch = NULL

\* C35, first half: set_consumer_uptodate is called between batches only --
\* no batch was acquired in the work() call, no callback has run and no
\* write of a batch waits for its commit on the target
C35_TagBetweenBatches ==
    /\ [](pc \in {"fetch_state", "tag_refreshed", "clear_error", "pause_check"} =>
            /\ cyc.acquires = 0
            /\ cyc.callbacks = 0
            /\ batch_id = NULL
            /\ held = NULL
            /\ dst_pending = <<>>)
    /\ [][~dst.uptodate /\ dst'.uptodate => pc = "tag_refreshed"]_vars

\* C35 as stated: the call is made between batches, and while the registry
\* shows paused = true together with uptodate = true (the flag the pause
\* had cleared is set again) the consumer applies nothing to the target
C35_UptodateMeansQuiescent ==
    /\ [](pc = "tag_refreshed" =>
            cyc.acquires = 0 /\ cyc.callbacks = 0 /\ dst_pending = <<>>)
    /\ [][dst.paused /\ dst.uptodate =>
            /\ applied' = applied
            /\ dst_pending' = dst_pending
            /\ dst'.completed_tick = dst.completed_tick]_vars

\* the state C35 misses: the registry shows paused and up to date while the
\* consumer, whose fetched state is the one before the pause, has written a
\* batch on the target
C35_AppliedWhilePaused ==
    /\ dst.paused
    /\ dst.uptodate
    /\ ~state.paused
    /\ ~state.uptodate
    /\ pc = "finish_remote"
    /\ dst_pending # <<>>

\* C36: with no position stored, CascadedConsumer.is_batch_done raises for
\* every batch (completed_tick NULL or 0) and never answers False, while
\* LocalConsumer (local tick -1) and SerialConsumer (no destination tick)
\* answer False, a new batch; with a position stored all three answer by
\* the same comparison: False when prev_tick is the position, else True when
\* cur_tick is, else the lost-position error
C36_MissingPositionByKlass ==
    fn.out # "none" =>
        /\ (fn.klass = "CascadedConsumer" /\ fn.dst \in {NULL, 0}) =>
              fn.out = "raise_null"
        /\ (fn.klass = "LocalConsumer" /\ fn.dst = -1) => fn.out = "False"
        /\ (fn.klass = "SerialConsumer" /\ fn.dst \in {NULL, 0}) => fn.out = "False"
        /\ fn.dst >= 1 =>
              fn.out = IF fn.prev = fn.dst THEN "False"
                       ELSE IF fn.cur = fn.dst THEN "True"
                       ELSE "raise_lost"
        /\ (fn.klass = "LocalConsumer" /\ fn.dst = 0) => fn.out = "raise_lost"

\* C36 witness: a LocalConsumer without local tick has taken a batch as new
C36_Witness ==
    /\ fn.klass = "LocalConsumer"
    /\ fn.dst = -1
    /\ fn.prev < fn.cur
    /\ fn.out = "False"

\* a batch the file already records while the source has not committed its
\* acknowledgment
WrittenUnacked == src.batch # NULL /\ src.next_tick = dst.completed_tick

C38_CheckQueueAligns ==
    [][pc = "check_queue" /\ pc' \in {"idle", "next_batch"}
         => LET q == src_tx.last_tick
                l == dst.completed_tick
            IN /\ (q # NULL \/ l # NULL) => src_tx'.last_tick = dst'.completed_tick
               /\ (q = NULL /\ l # NULL) => src_tx' = SubRow(l) /\ dst' = dst
               /\ (q = NULL /\ l = NULL)
                    => src_tx' = SubRow(top_tick) /\ dst' = dst
               /\ (q # NULL /\ l = NULL)
                    => dst'.completed_tick = q /\ src_tx' = src_tx
               /\ (q # NULL /\ l # NULL /\ q # l)
                    => /\ src_tx'.last_tick = l
                       /\ src_tx'.batch = NULL
                       /\ dst' = dst
               /\ (q # NULL /\ q = l) => src_tx' = src_tx /\ dst' = dst
               /\ applied' = applied]_vars

\* C38 witness: startup's check_queue has returned after it found the queue
\* ahead of the local tick and moved it back
C38_Witness ==
    /\ cyc.calls = {"rewind"}
    /\ pc = "idle"
    /\ work_state = 1
    /\ src_tx.last_tick = dst.completed_tick
    /\ src_tx.last_tick < top_tick

\* C39: a walker's fetch_status never decreases (0, then 1, then 2); it is 2,
\* and the cursor closed, only when every row behind the cursor has been
\* handed out and the iteration was asked for more.  A walker left part-way
\* stays at 1 with its cursor open, its length is the number of rows in the
\* pages fetched so far, and a new iteration of it is refused.
C39_FetchStatusOneWay ==
    /\ [][ev_list'.fetch_status >= ev_list.fetch_status]_vars
    /\ [](ev_list.fetch_status \in {0, 1, 2})
    /\ [](ev_list.closes = IF ev_list.fetch_status = 2 THEN 1 ELSE 0)
    /\ [](ev_list.fetch_status = 2 => ev_list.out = walker_rows)
    /\ [][ev_list.fetch_status = 1 /\ ev_list'.fetch_status = 2
            => /\ ev_list.out = walker_rows
               /\ ev_list'.out = ev_list.out
               /\ ev_list.row = Len(ev_list.page)]_vars
    /\ [](ev_list.fetch_status = 0
            => ev_list.opens = 0 /\ ev_list.length = 0 /\ ev_list.out = <<>>)
    /\ [](ev_list.fetch_status = 1
            => /\ ev_list.opens = 1
               /\ ev_list.length = Min(Len(walker_rows),
                                       (ev_list.fetches + 1) * ev_list.fetch_size)
               /\ Len(ev_list.out) \in 1 .. ev_list.length
               /\ ev_list.length - Len(ev_list.out) < ev_list.fetch_size)
    /\ [][ev_list.fetch_status = 1 /\ ev_list' # ev_list
            => \/ Len(ev_list'.out) = Len(ev_list.out) + 1
               \/ ev_list'.fetch_status = 2]_vars
    /\ [][bw'.loops > bw.loops /\ ev_list.fetch_status # 0
            => ev_list' = ev_list /\ bw'.errors = bw.errors + 1]_vars

\* C39 witness: a walker left after the first row of its first page; the
\* callback has returned, a second for statement was refused
C39_Witness ==
    /\ ev_list.fetch_status = 1
    /\ ev_list.closes = 0
    /\ Len(ev_list.out) = 1
    /\ ev_list.length = 2
    /\ Len(walker_rows) > 2
    /\ bw.loops = 2
    /\ bw.errors = 1
    /\ bw.stat # {}

\* C40: in lazy mode a work() cycle of Consumer opens the walker's cursor
\* at most once: _flush_retry reads the status map only and leaves the
\* walker's iteration as the callback left it, so it never fails on a walker
\* that was consumed; when it has returned, every retry still in the status
\* map is registered on the batch with its delay, whatever became of the
\* events; and a batch whose callback never iterated is acknowledged with
\* no cursor opened, no event fetched and no retry registered.
C40_FlushReadsStatusMapOnly ==
    /\ [](ev_list.mode = "walker" => ev_list.opens <= 1)
    /\ [](ev_list.mode = "walker" => ~cyc.flush_raised)
    /\ [][pc = "flush" /\ ev_list.mode = "walker"
            => /\ ev_list'.mode = "walker" \/ pc' = "idle"
               /\ ev_list'.mode = "walker"
                    => /\ ev_list'.fetch_status = ev_list.fetch_status
                       /\ ev_list'.opens = ev_list.opens
                       /\ ev_list'.fetches = ev_list.fetches
                       /\ ev_list'.closes = ev_list.closes
                       /\ ev_list'.out = ev_list.out
                       /\ ev_list'.length = ev_list.length
                       /\ ev_list'.status_map = ev_list.status_map]_vars
    /\ [](pc \in {"finish", "fin_commit"} /\ ev_list.mode = "walker"
            => /\ \A e \in DOMAIN ev_list.status_map :
                    /\ ev_list.status_map[e][1] = EV_RETRY
                    /\ <<e, ev_list.status_map[e][2]>> \in cyc.calls
               /\ cyc.retries = Cardinality(DOMAIN ev_list.status_map)
               /\ pc = "finish"
                    => \A e \in DOMAIN ev_list.status_map :
                         <<batch_id, e, ev_list.status_map[e][2]>> \in src_tx.retry)
    /\ [][pc = "fin_commit" /\ pc' = "idle" /\ src_tx' = src_tx
          /\ ev_list.mode = "walker" /\ ev_list.fetch_status = 0
            => /\ ev_list.opens = 0
               /\ ev_list.length = 0
               /\ ev_list.out = <<>>
               /\ cyc.retries = 0
               /\ cyc.finished = 1
               /\ src'.batch = NULL
               /\ work_state' = 1]_vars

\* C40 witness: the callback has consumed the walker and tagged an event for
\* retry; _flush_retry has registered the retry and finish_batch is next
C40_Witness ==
    /\ pc = "finish"
    /\ ev_list.mode = "walker"
    /\ ev_list.fetch_status = 2
    /\ ev_list.opens = 1
    /\ cyc.retries >= 1
    /\ \E e \in DOMAIN ev_list.status_map :
         <<batch_id, e, ev_list.status_map[e][2]>> \in src_tx.retry

\* C4 witness: a completed tick strictly inside the batch's window is refused
C4_Witness ==
    /\ fn.out = "raise_lost"
    /\ fn.prev < fn.dst
    /\ fn.dst < fn.cur

====
